---- MODULE Spec2Model ----
(***************************************************************************)
(* Transform stack, body-part drawers and pose generators of the          *)
(* Computer-Graphics-Project figures (fencing / running / spike / lifting *)
(* / example), modelled as state machines.                                 *)
(*                                                                         *)
(* Numbers.  The JavaScript numbers of the source are IEEE 754 binary64    *)
(* values and are modelled as such: every +, -, *, / of the source is the  *)
(* correctly rounded operation on doubles, angles are in radians and       *)
(* deg(a) is (a * Math.PI) / 180 as the source computes it.  The pose      *)
(* generators and the drawers build the arithmetic expressions of the      *)
(* source; an expression is evaluated where the program uses its value.    *)
(*                                                                         *)
(* Matrices.  A 4x4 transform is modelled by the word of elementary        *)
(* transforms whose product it is (identity = the empty word; mat4.        *)
(* translate/rotate/scale(out, a, x) right-multiply, i.e. append).  Equal  *)
(* words denote equal matrices.  Matrix OBJECTS live in a heap, so that    *)
(* the difference between a copy and a reference is part of the state.     *)
(***************************************************************************)
EXTENDS Integers, Sequences, FiniteSets, TLC

VARIABLES
    variant,    \* which of the five programs runs
    stk,        \* the transform stack object and the matrix objects it refers to
    lastOp,     \* observer: the operation that produced this state
    changed,    \* observer: that operation changed the value of the current transform
    pushed,     \* observer: value the current transform had at each open push
    fn,         \* the pose-generator function applied last ("none" before any)
    arg,        \* its argument
    out,        \* its result
    prog,       \* the operations of the frame being drawn, in execution order
    pc,         \* position in prog (0: no frame in progress)
    calls,      \* observer: the drawing routines entered and not yet returned
    ret,        \* observer: entry and exit snapshot of the routine that returned last
    log,        \* observer: the draw calls of this frame with their model matrix
    stkTop,     \* drawBarbell's checkpoint of the stack length
    warned,     \* console.warn("Matrix stack leak in drawBarbell!") was emitted
    camera,     \* the camera angles and the drag bookkeeping of the mouse handlers
    startTime,  \* the animation epoch (fencing, spike, lifting)
    rightArmAngle,  \* example.js: the arm animation angle
    direction,  \* example.js: the direction the angle moves in
    events,     \* observer: the number of mouse moves handled
    host        \* the browser: the script is loaded, the frame requests pending

stackVars == <<stk, lastOp, changed, pushed>>
fnVars == <<fn, arg, out>>
drawVars == <<prog, pc, calls, ret, log, stkTop, warned>>
frameVars == <<camera, startTime, rightArmAngle, direction, events, host>>
vars == <<variant, stk, lastOp, changed, pushed, fn, arg, out,
          prog, pc, calls, ret, log, stkTop, warned,
          camera, startTime, rightArmAngle, direction, events, host>>

----------------------------------------------------------------------------
(* Bounds *)

MaxDepth == 2
MaxWord == 1
TSteps == 4
MaxElapsed == 2000
SinGrid == 12
PoseSteps == 2

----------------------------------------------------------------------------
(* Numbers *)

(* Natural numbers of any size: little-endian sequences of limbs in base   *)
(* 2^15, without leading zero limbs (zero is the empty sequence).          *)

LimbBits == 15
B == 2 ^ LimbBits

RECURSIVE NTrim(_)
NTrim(a) ==
    IF a = <<>> THEN a
    ELSE IF a[Len(a)] = 0 THEN NTrim(SubSeq(a, 1, Len(a) - 1)) ELSE a

RECURSIVE N(_)
N(n) == IF n = 0 THEN <<>> ELSE <<n % B>> \o N(n \div B)

limb(a, i) == IF i <= Len(a) THEN a[i] ELSE 0

RECURSIVE NAddC(_, _, _, _)
NAddC(a, b, i, c) ==
    IF i > Len(a) /\ i > Len(b)
    THEN IF c = 0 THEN <<>> ELSE <<c>>
    ELSE LET s == limb(a, i) + limb(b, i) + c
         IN  <<s % B>> \o NAddC(a, b, i + 1, s \div B)

NAdd(a, b) == NAddC(a, b, 1, 0)

RECURSIVE NSubC(_, _, _, _)
NSubC(a, b, i, c) ==
    IF i > Len(a) THEN <<>>
    ELSE LET d == a[i] - limb(b, i) - c
         IN  IF d < 0 THEN <<d + B>> \o NSubC(a, b, i + 1, 1)
             ELSE <<d>> \o NSubC(a, b, i + 1, 0)

\* a - b for a >= b
NSub(a, b) == NTrim(NSubC(a, b, 1, 0))

RECURSIVE NCmpAt(_, _, _)
NCmpAt(a, b, i) ==
    IF i = 0 THEN 0
    ELSE IF a[i] < b[i] THEN -1
    ELSE IF a[i] > b[i] THEN 1
    ELSE NCmpAt(a, b, i - 1)

NCmp(a, b) ==
    IF Len(a) # Len(b) THEN (IF Len(a) < Len(b) THEN -1 ELSE 1)
    ELSE NCmpAt(a, b, Len(a))

RECURSIVE NMulSmallC(_, _, _, _)
NMulSmallC(a, k, i, c) ==
    IF i > Len(a)
    THEN IF c = 0 THEN <<>> ELSE <<c>>
    ELSE LET p == a[i] * k + c
         IN  <<p % B>> \o NMulSmallC(a, k, i + 1, p \div B)

\* a * k for 0 <= k < B
NMulSmall(a, k) == NTrim(NMulSmallC(a, k, 1, 0))

RECURSIVE NMulAt(_, _, _)
NMulAt(a, b, j) ==
    IF j > Len(b) THEN <<>>
    ELSE NAdd(NMulSmall(a, b[j]), <<0>> \o NMulAt(a, b, j + 1))

NMul(a, b) == NTrim(NMulAt(a, b, 1))

Zeros(n) == [i \in 1..n |-> 0]

\* a * 2^k
NShl(a, k) ==
    IF a = <<>> THEN a
    ELSE Zeros(k \div LimbBits) \o NMulSmall(a, 2 ^ (k % LimbBits))

\* floor(a / 2^k)
NShr(a, k) ==
    LET w == k \div LimbBits
        r == k % LimbBits
        h == IF w >= Len(a) THEN <<>> ELSE SubSeq(a, w + 1, Len(a))
    IN  NTrim([i \in 1..Len(h) |->
                  (h[i] \div (2 ^ r)) + (limb(h, i + 1) % (2 ^ r)) * (2 ^ (LimbBits - r))])

RECURSIVE BitLen(_)
BitLen(n) == IF n = 0 THEN 0 ELSE 1 + BitLen(n \div 2)

NBitLen(a) == IF a = <<>> THEN 0 ELSE LimbBits * (Len(a) - 1) + BitLen(a[Len(a)])

NOdd(a) == a # <<>> /\ a[1] % 2 = 1

\* the largest g in lo..hi with d * g <= r, given d * lo <= r
RECURSIVE NDigit(_, _, _, _)
NDigit(r, d, lo, hi) ==
    IF lo = hi THEN lo
    ELSE LET mid == (lo + hi + 1) \div 2
         IN  IF NCmp(NMulSmall(d, mid), r) <= 0
             THEN NDigit(r, d, mid, hi)
             ELSE NDigit(r, d, lo, mid - 1)

\* long division, one limb of the quotient per step: <<floor(a * B^k / d),
\* remainder>> for NDivLimbs(<<>>, a, d, k) and a < d * B
RECURSIVE NDivLimbs(_, _, _, _)
NDivLimbs(q, r, d, k) ==
    LET g == NDigit(r, d, 0, B - 1)
        q1 == <<g>> \o q
        r1 == NSub(r, NMulSmall(d, g))
    IN  IF k = 0 THEN <<NTrim(q1), r1>>
        ELSE NDivLimbs(q1, NShl(r1, LimbBits), d, k - 1)

(* IEEE 754 binary64 numbers (the JavaScript Number type): zero, or        *)
(* s * m * 2^e with s the sign, 2^52 <= m < 2^53.  Every operation rounds  *)
(* the exact result to nearest, ties to even.  The two zeros are one       *)
(* value (a division by zero gives the infinity of the dividend's sign);   *)
(* NaN and the infinities are values with an empty m; subnormals and       *)
(* overflow do not occur at the magnitudes the programs compute with and   *)
(* are not represented.                                                    *)

Precision == 53

Zero == [s |-> 0, m |-> <<>>, e |-> 0]
NaN == [s |-> 0, m |-> <<>>, e |-> 1]
Infinity(s) == [s |-> s, m |-> <<>>, e |-> 1]
IsInf(a) == a.m = <<>> /\ a.s # 0

\* the double nearest to s * n * 2^e, n > 0
Round(s, n, e) ==
    LET len == NBitLen(n)
    IN  IF len <= Precision
        THEN [s |-> s, m |-> NShl(n, Precision - len), e |-> e - (Precision - len)]
        ELSE LET sh == len - Precision
                 q == NShr(n, sh)
                 rest == NSub(n, NShl(q, sh))
                 c == NCmp(rest, NShl(<<1>>, sh - 1))
                 q1 == IF c = 1 \/ (c = 0 /\ NOdd(q)) THEN NAdd(q, <<1>>) ELSE q
             IN  IF NBitLen(q1) > Precision
                 THEN [s |-> s, m |-> NShr(q1, 1), e |-> e + sh + 1]
                 ELSE [s |-> s, m |-> q1, e |-> e + sh]

FRound(s, n, e) == IF n = <<>> THEN Zero ELSE Round(s, n, e)

\* the integer n as a Number
F(n) == FRound(IF n < 0 THEN -1 ELSE 1, N(IF n < 0 THEN -n ELSE n), 0)

FNeg(a) == [a EXCEPT !.s = -a.s]

FAdd(a, b) ==
    IF a = NaN \/ b = NaN THEN NaN
    ELSE IF IsInf(a) THEN (IF IsInf(b) /\ b.s # a.s THEN NaN ELSE a)
    ELSE IF a.s = 0 \/ IsInf(b) THEN b
    ELSE IF b.s = 0 THEN a
    ELSE LET e == IF a.e < b.e THEN a.e ELSE b.e
             na == NShl(a.m, a.e - e)
             nb == NShl(b.m, b.e - e)
             c == NCmp(na, nb)
             hi == IF c = 1 THEN na ELSE nb
             lo == IF c = 1 THEN nb ELSE na
         IN  FRound(IF c = 1 THEN a.s ELSE b.s,
                    IF a.s = b.s THEN NAdd(hi, lo) ELSE NSub(hi, lo), e)

FSub(a, b) == FAdd(a, FNeg(b))

FMul(a, b) ==
    IF a = NaN \/ b = NaN THEN NaN
    ELSE IF IsInf(a) \/ IsInf(b)
    THEN (IF a.s = 0 \/ b.s = 0 THEN NaN ELSE Infinity(a.s * b.s))
    ELSE IF a.s = 0 \/ b.s = 0 THEN Zero
    ELSE FRound(a.s * b.s, NMul(a.m, b.m), a.e + b.e)

QuotientLimbs == 4

\* a / b: 60 quotient bits and a sticky bit, then rounded
FDiv(a, b) ==
    IF a = NaN \/ b = NaN \/ (IsInf(a) /\ IsInf(b)) \/ (a.s = 0 /\ b.s = 0) THEN NaN
    ELSE IF IsInf(a) THEN Infinity(a.s * (IF b.s = 0 THEN 1 ELSE b.s))
    ELSE IF b.s = 0 THEN Infinity(a.s)
    ELSE IF a.s = 0 \/ IsInf(b) THEN Zero
    ELSE LET qr == NDivLimbs(<<>>, a.m, b.m, QuotientLimbs)
             n == NAdd(NShl(qr[1], 1), IF qr[2] = <<>> THEN <<>> ELSE <<1>>)
         IN  FRound(a.s * b.s, n, a.e - b.e - (QuotientLimbs * LimbBits + 1))

\* the order of two Numbers other than NaN
FCmp(a, b) ==
    IF a.s # b.s THEN (IF a.s < b.s THEN -1 ELSE 1)
    ELSE IF a.s = 0 THEN 0
    ELSE IF IsInf(a) \/ IsInf(b)
    THEN a.s * ((IF IsInf(a) THEN 1 ELSE 0) - (IF IsInf(b) THEN 1 ELSE 0))
    ELSE a.s * (IF a.e # b.e THEN (IF a.e < b.e THEN -1 ELSE 1) ELSE NCmp(a.m, b.m))

\* a comparison with NaN is false
FLt(a, b) == a # NaN /\ b # NaN /\ FCmp(a, b) = -1
FLe(a, b) == a # NaN /\ b # NaN /\ FCmp(a, b) <= 0
FAbs(a) == [a EXCEPT !.s = a.s * a.s]
FMin(a, b) == IF a = NaN \/ b = NaN THEN NaN ELSE IF FLt(b, a) THEN b ELSE a
FMax(a, b) == IF a = NaN \/ b = NaN THEN NaN ELSE IF FLt(a, b) THEN b ELSE a

\* Math.floor
FFloor(a) ==
    IF a.s = 0 \/ a.e >= 0 THEN a
    ELSE LET n == NShr(a.m, -a.e)
             exact == NShl(n, -a.e) = a.m
         IN  IF a.s = 1 THEN FRound(1, n, 0)
             ELSE FRound(-1, IF exact THEN n ELSE NAdd(n, <<1>>), 0)

\* c % 2 === 1 for an integer-valued c
FOdd(c) == c.s = 1 /\ c.e <= 0 /\ NOdd(NShr(c.m, -c.e))

\* Math.fround: the single-precision number (24-bit significand) nearest
\* to a
Float32(a) ==
    IF a.m = <<>> THEN a
    ELSE LET q == NShr(a.m, 29)
             rest == NSub(a.m, NShl(q, 29))
             c == NCmp(rest, NShl(<<1>>, 28))
         IN  FRound(a.s, IF c = 1 \/ (c = 0 /\ NOdd(q)) THEN NAdd(q, <<1>>) ELSE q, a.e + 29)

\* the largest s with s * s <= n, found limb by limb from the top: root
\* holds the limbs above position k
RECURSIVE NSqrtLimbs(_, _, _)
NSqrtLimbs(root, n, k) ==
    IF k = 0 THEN NTrim(root)
    ELSE LET fits(g) == LET c == NTrim([root EXCEPT ![k] = g])
                        IN  NCmp(NMul(c, c), n) <= 0
             digit[lo \in 0..(B - 1), hi \in 0..(B - 1)] ==
                 IF lo = hi THEN lo
                 ELSE LET mid == (lo + hi + 1) \div 2
                      IN  IF fits(mid) THEN digit[mid, hi] ELSE digit[lo, mid - 1]
         IN  NSqrtLimbs([root EXCEPT ![k] = digit[0, B - 1]], n, k - 1)

NSqrt(n) == NSqrtLimbs(Zeros((Len(n) + 1) \div 2), n, (Len(n) + 1) \div 2)

\* Math.hypot(a, b, c): the square root of the exact sum of the squares,
\* rounded once
FHypot(a, b, c) ==
    IF IsInf(a) \/ IsInf(b) \/ IsInf(c) THEN Infinity(1)
    ELSE IF a = NaN \/ b = NaN \/ c = NaN THEN NaN
    ELSE IF a.s = 0 /\ b.s = 0 /\ c.s = 0 THEN Zero
    ELSE LET xs == SelectSeq(<<a, b, c>>, LAMBDA v : v.s # 0)
             lowest[i \in 1..Len(xs)] ==
                 IF i = 1 \/ xs[i].e < lowest[i - 1] THEN xs[i].e ELSE lowest[i - 1]
             e == lowest[Len(xs)]
             sum[i \in 0..Len(xs)] ==
                 IF i = 0 THEN <<>>
                 ELSE NAdd(sum[i - 1], NShl(NMul(xs[i].m, xs[i].m), 2 * (xs[i].e - e)))
             \* the sum is at least 2^104: eight more bits for the rounding
             n == NShl(sum[Len(xs)], 8)
             s == NSqrt(n)
             sticky == IF NMul(s, s) = n THEN <<>> ELSE <<1>>
         IN  FRound(1, NAdd(NShl(s, 1), sticky), e - 5)

\* Math.PI = 0x1.921FB54442D18p+1
PI == [s |-> 1, m |-> <<11544, 10376, 2029, 201>>, e |-> -51]

(* Number-valued expressions of the source, as the program text builds     *)
(* them; Ev gives the Number an expression evaluates to.  A Number is an   *)
(* expression that evaluates to itself.                                    *)

Num(n) == [op |-> "num", a |-> n]
\* the decimal literal n / d (d a power of ten), e.g. 0.15 = Dec(15, 100)
Dec(n, d) == [op |-> "dec", a |-> n, b |-> d]
Add(a, b) == [op |-> "+", a |-> a, b |-> b]
Sub(a, b) == [op |-> "-", a |-> a, b |-> b]
Mul(a, b) == [op |-> "*", a |-> a, b |-> b]
Div(a, b) == [op |-> "/", a |-> a, b |-> b]
Neg(a) == [op |-> "neg", a |-> a]
Floor(a) == [op |-> "floor", a |-> a]
Min(a, b) == [op |-> "min", a |-> a, b |-> b]
Max(a, b) == [op |-> "max", a |-> a, b |-> b]
Lt(a, b) == [op |-> "<", a |-> a, b |-> b]
Le(a, b) == [op |-> "<=", a |-> a, b |-> b]
IsOdd(a) == [op |-> "odd", a |-> a]
\* c ? a : b, or an if / else that assigns a or b
If(c, a, b) == [op |-> "if", c |-> c, a |-> a, b |-> b]
Hypot(a, b, c) == [op |-> "hypot", a |-> a, b |-> b, c |-> c]
Acos(a) == [op |-> "acos", a |-> a]
\* a Number stored in a Float32Array element
Fround(a) == [op |-> "fround", a |-> a]

\* Math.acos: pi/2, 0 and pi at 0, 1 and -1, NaN outside [-1, 1]; any other
\* angle stays the term acos(a)
FAcos(a) ==
    IF a = Zero THEN FDiv(PI, F(2))
    ELSE IF a = F(1) THEN Zero
    ELSE IF a = F(-1) THEN PI
    ELSE IF a = NaN \/ FLt(F(1), a) \/ FLt(a, F(-1)) THEN NaN
    ELSE Acos(a)

RECURSIVE Ev(_), Test(_)

Test(c) ==
    IF c.op = "<" THEN FLt(Ev(c.a), Ev(c.b))
    ELSE IF c.op = "<=" THEN FLe(Ev(c.a), Ev(c.b))
    ELSE FOdd(Ev(c.a))

Ev(x) ==
    IF "op" \notin DOMAIN x THEN x
    ELSE CASE x.op = "num" -> F(x.a)
           [] x.op = "hypot" -> FHypot(Ev(x.a), Ev(x.b), Ev(x.c))
           [] x.op = "acos" -> FAcos(Ev(x.a))
           [] x.op = "fround" -> Float32(Ev(x.a))
           [] x.op = "dec" -> FDiv(F(x.a), F(x.b))
           [] x.op = "+" -> FAdd(Ev(x.a), Ev(x.b))
           [] x.op = "-" -> FSub(Ev(x.a), Ev(x.b))
           [] x.op = "*" -> FMul(Ev(x.a), Ev(x.b))
           [] x.op = "/" -> FDiv(Ev(x.a), Ev(x.b))
           [] x.op = "neg" -> FNeg(Ev(x.a))
           [] x.op = "floor" -> FFloor(Ev(x.a))
           [] x.op = "min" -> FMin(Ev(x.a), Ev(x.b))
           [] x.op = "max" -> FMax(Ev(x.a), Ev(x.b))
           [] x.op = "if" -> IF Test(x.c) THEN Ev(x.a) ELSE Ev(x.b)

\* the Numbers of a record or an array of expressions
EvAll(r) == [k \in DOMAIN r |-> Ev(r[k])]

----------------------------------------------------------------------------
(* The five programs of the repository *)

StackVariants == {"fencing", "running", "spike", "lifting"}
Variants == StackVariants \cup {"example"}

----------------------------------------------------------------------------
(* Elementary transforms and matrix values *)

T(v) == [k |-> "T", a |-> <<>>, v |-> v]
R(a, axis) == [k |-> "R", a |-> a, v |-> axis]
S(v) == [k |-> "S", a |-> <<>>, v |-> v]

Identity == <<>>

Undefined == 0

Last(s) == s[Len(s)]
Front(s) == SubSeq(s, 1, Len(s) - 1)
Range(s) == {s[i] : i \in DOMAIN s}

----------------------------------------------------------------------------
(* The matrix heap.  m = [heap, current, stack, regs, thrown]: heap maps   *)
(* the ids of the live matrix objects to their values; current, the        *)
(* entries of stack and the entries of regs are ids; thrown is the         *)
(* exception the last call raised ("none" if it returned normally).        *)

Roots(m) == ({m.current} \cup Range(m.stack) \cup Range(m.regs)) \ {Undefined}

gc(m) == [m EXCEPT !.heap = [i \in Roots(m) |-> m.heap[i]]]

NewId(m) ==
    LET free == (1..(Cardinality(DOMAIN m.heap) + 1)) \ DOMAIN m.heap
    IN  CHOOSE i \in free : \A j \in free : i <= j

alloc(m, value) == [m EXCEPT !.heap = (NewId(m) :> value) @@ @]

Val(m, id) == m.heap[id]

throw(m, e) == [m EXCEPT !.thrown = e]

create == Identity

clone(a) == a

----------------------------------------------------------------------------
(* class MatrixStack (fencing, running, spike, lifting) *)

MatrixStack ==
    [heap |-> (1 :> create), current |-> 1, stack |-> <<>>,
     regs |-> <<>>, thrown |-> "none"]

push_alias(m) == [m EXCEPT !.stack = Append(@, m.current)]

push(m) ==
    LET id == NewId(m)
    IN  [alloc(m, clone(m.heap[m.current])) EXCEPT !.stack = Append(@, id)]

pop_fifo(m) ==
    IF Len(m.stack) = 0
    THEN throw(m, "Stack underflow")
    ELSE gc([m EXCEPT !.current = Head(m.stack), !.stack = Tail(@)])

pop(m) ==
    IF Len(m.stack) = 0
    THEN throw(m, "Stack underflow")
    ELSE gc([m EXCEPT !.current = Last(m.stack), !.stack = Front(@)])

loadIdentity(m) == [m EXCEPT !.heap[m.current] = Identity]

translate(m, v) == [m EXCEPT !.heap[m.current] = Append(@, T(v))]

rotate(m, rad, axis) == [m EXCEPT !.heap[m.current] = Append(@, R(rad, axis))]

scale(m, v) == [m EXCEPT !.heap[m.current] = Append(@, S(v))]

getCurrentMatrix(m) == m.current

----------------------------------------------------------------------------
(* example.js: var modelViewMatrix = mat4(); var stack = [].  The current  *)
(* transform is the variable modelViewMatrix (m.current), the history is a *)
(* plain array; mult() returns a new matrix object.                        *)

exampleStack ==
    [heap |-> (1 :> Identity), current |-> 1, stack |-> <<>>,
     regs |-> <<>>, thrown |-> "none"]

\* stack.push(modelViewMatrix)
array_push(m) == [m EXCEPT !.stack = Append(@, m.current)]

\* modelViewMatrix = stack.pop()   (Array.prototype.pop of [] is undefined)
array_pop(m) ==
    IF Len(m.stack) = 0
    THEN gc([m EXCEPT !.current = Undefined])
    ELSE gc([m EXCEPT !.current = Last(m.stack), !.stack = Front(@)])

\* modelViewMatrix = mult(modelViewMatrix, x)
mult_assign(m, x) ==
    IF m.current = Undefined
    THEN throw(m, "TypeError")
    ELSE gc([alloc(m, Append(m.heap[m.current], x)) EXCEPT !.current = NewId(m)])

\* modelViewMatrix = mat4()
mat4_assign(m) == gc([alloc(m, Identity) EXCEPT !.current = NewId(m)])

----------------------------------------------------------------------------
(* Calls of the transform-stack operations in any order (SpecStack)        *)

Vecs == {<<F(0), F(2), F(0)>>}
Angles == {F(90)}

NoValue == <<[k |-> "undefined", a |-> <<>>, v |-> <<>>]>>

CurVal(m) == IF m.current = Undefined THEN NoValue ELSE Val(m, m.current)

call(m) == [m EXCEPT !.thrown = "none"]

Observe(op) ==
    /\ lastOp' = op
    /\ changed' = (CurVal(stk') # CurVal(stk))
    /\ UNCHANGED <<variant, fnVars, drawVars, frameVars>>

NoReturn == [name |-> <<"", "">>, inDepth |-> 0, outDepth |-> 0, inVal |-> <<>>, outVal |-> <<>>]

DrawIdle ==
    /\ prog = <<>>
    /\ pc = 0
    /\ calls = <<>>
    /\ ret = NoReturn
    /\ log = <<>>
    /\ stkTop = 0
    /\ warned = FALSE

FnIdle == fn = "none" /\ arg = <<>> /\ out = <<>>

\* null
Null == [null |-> TRUE]

\* the globals of the mouse handlers and of render as the scripts
\* initialise them.  camera names fencing.js's variables: cameraRotationX
\* (camX in lifting and spike, phi in example.js), cameraRotationY (camY,
\* theta), isDragging (drag, dragging), mouseX (pmx, lastX), mouseY (pmy,
\* lastY)
FrameIdle ==
    /\ camera = [cameraRotationX |-> Zero, cameraRotationY |-> Zero,
                 isDragging |-> FALSE, mouseX |-> 0, mouseY |-> 0]
    /\ startTime = Null
    /\ rightArmAngle = Zero
    /\ direction = F(1)
    /\ events = 0
    /\ host = [loaded |-> FALSE, requests |-> 0]

InitStack ==
    /\ FnIdle
    /\ DrawIdle
    /\ FrameIdle
    /\ variant \in Variants
    /\ stk = IF variant = "example" THEN exampleStack ELSE MatrixStack
    /\ lastOp = "new"
    /\ changed = FALSE
    /\ pushed = <<>>

Push ==
    /\ Len(stk.stack) < MaxDepth
    /\ stk' = IF variant = "example" THEN array_push(call(stk)) ELSE push(call(stk))
    /\ pushed' = Append(pushed, CurVal(stk))
    /\ Observe("push")

Pop ==
    /\ stk' = IF variant = "example" THEN array_pop(call(stk)) ELSE pop(call(stk))
    /\ pushed' = IF Len(pushed) = 0 THEN pushed ELSE Front(pushed)
    /\ Observe("pop")

LoadIdentity ==
    /\ stk' = IF variant = "example" THEN mat4_assign(call(stk)) ELSE loadIdentity(call(stk))
    /\ UNCHANGED pushed
    /\ Observe("loadIdentity")

Roomy == stk.current = Undefined \/ Len(CurVal(stk)) < MaxWord

Translate ==
    /\ Roomy
    /\ \E v \in Vecs :
         stk' = IF variant = "example" THEN mult_assign(call(stk), T(v))
                ELSE translate(call(stk), v)
    /\ UNCHANGED pushed
    /\ Observe("translate")

Rotate ==
    /\ Roomy
    /\ \E a \in Angles :
         stk' = IF variant = "example" THEN mult_assign(call(stk), R(a, <<F(0), F(0), F(1)>>))
                ELSE rotate(call(stk), a, <<F(0), F(0), F(1)>>)
    /\ UNCHANGED pushed
    /\ Observe("rotate")

Scale ==
    /\ Roomy
    /\ \E v \in Vecs :
         stk' = IF variant = "example" THEN mult_assign(call(stk), S(v))
                ELSE scale(call(stk), v)
    /\ UNCHANGED pushed
    /\ Observe("scale")

NextStack == Push \/ Pop \/ LoadIdentity \/ Translate \/ Rotate \/ Scale

SpecStack == InitStack /\ [][NextStack]_vars

----------------------------------------------------------------------------
(* Claims about the transform stack *)

NoAlias == \A i \in DOMAIN stk.stack : stk.stack[i] # stk.current

HistoryKept ==
    /\ Len(pushed) = Len(stk.stack)
    /\ \A i \in DOMAIN stk.stack : Val(stk, stk.stack[i]) = pushed[i]

PushStep ==
    lastOp' = "push" =>
        /\ Len(stk'.stack) = Len(stk.stack) + 1
        /\ Front(stk'.stack) = stk.stack
        /\ Val(stk', Last(stk'.stack)) = CurVal(stk)
        /\ stk'.current = stk.current
        /\ CurVal(stk') = CurVal(stk)

LoadIdentityStep ==
    lastOp' = "loadIdentity" =>
        /\ stk'.stack = stk.stack
        /\ \A i \in DOMAIN stk.stack : Val(stk', stk.stack[i]) = Val(stk, stk.stack[i])
        /\ CurVal(stk') = Identity

\* C1: MatrixStack.push() appends a copy of the current transform to the
\* history and leaves the current transform unchanged; whatever translate /
\* rotate / scale / loadIdentity calls follow, every history entry keeps the
\* value it had when it was pushed, no history entry is the same object as
\* the current transform, and loadIdentity changes only the current
\* transform, never the history depth or contents.
C1_PushSavesCopy ==
    /\ [](variant \in StackVariants => (NoAlias /\ HistoryKept))
    /\ [][(variant \in StackVariants) => (PushStep /\ LoadIdentityStep)]_vars

\* a history entry outlives a later change of the current transform
C1_Witness ==
    /\ variant \in StackVariants
    /\ lastOp \in {"translate", "rotate", "scale", "loadIdentity"}
    /\ changed
    /\ Len(stk.stack) >= 1
    /\ Val(stk, Last(stk.stack)) # CurVal(stk)
    /\ Val(stk, Last(stk.stack)) = Last(pushed)

\* C2: pop() on a non-empty history sets the current transform to the most
\* recently pushed, not yet popped value and removes exactly that entry
\* (LIFO); so the current transform after a pop equals the current transform
\* at the moment of the matching push, whatever transform operations and
\* balanced inner push/pop pairs ran in between.
C2_PopRestoresLIFO ==
    [][(variant \in StackVariants /\ lastOp' = "pop" /\ Len(stk.stack) > 0) =>
          (/\ stk'.thrown = "none"
           /\ stk'.current = Last(stk.stack)
           /\ stk'.stack = Front(stk.stack)
           /\ CurVal(stk') = Last(pushed))]_vars

\* an inner pop that undid a change of the current transform
C2_Witness ==
    /\ variant \in StackVariants
    /\ lastOp = "pop"
    /\ stk.thrown = "none"
    /\ changed
    /\ Len(stk.stack) >= 1

\* C3: in every variant, popping the transform stack when its history is
\* empty raises a stack-underflow error immediately and leaves the current
\* transform and the (empty) history unchanged; it is never a silent no-op
\* and never replaces the current transform with an undefined value.
C3_EmptyPopThrows ==
    [][(lastOp' = "pop" /\ Len(stk.stack) = 0) =>
          (/\ stk'.thrown = "Stack underflow"
           /\ stk'.current = stk.current
           /\ stk'.current # Undefined
           /\ stk'.heap = stk.heap
           /\ stk'.stack = <<>>)]_vars

----------------------------------------------------------------------------
(* Pose generators *)

\* const deg = (a) => (a * Math.PI) / 180
deg(a) == Div(Mul(Num(a), PI), Num(180))

\* const lerp = (a, b, t) => a + (b - a) * t
lerp(a, b, t) == Add(a, Mul(Sub(b, a), t))

(* lifting (part_000) *)

endPose_lifting ==
    [BODY_LEAN_X |-> deg(0), BODY_LEAN_Y |-> deg(0), BODY_LEAN_Z |-> deg(0),
     HEAD_TILT |-> deg(-15),
     LEFT_SHOULDER |-> deg(180), RIGHT_SHOULDER |-> deg(180),
     LEFT_ELBOW |-> deg(0), RIGHT_ELBOW |-> deg(0),
     LEFT_HIP |-> deg(-40), RIGHT_HIP |-> deg(50),
     LEFT_KNEE |-> deg(-10), RIGHT_KNEE |-> deg(-55)]

startPose_lifting ==
    [BODY_LEAN_X |-> deg(0), BODY_LEAN_Y |-> deg(0), BODY_LEAN_Z |-> deg(0),
     HEAD_TILT |-> deg(-15),
     LEFT_SHOULDER |-> deg(20), RIGHT_SHOULDER |-> deg(20),
     LEFT_ELBOW |-> deg(140), RIGHT_ELBOW |-> deg(140),
     LEFT_HIP |-> deg(0), RIGHT_HIP |-> deg(0),
     LEFT_KNEE |-> deg(0), RIGHT_KNEE |-> deg(0)]

ARM_SX_START == Dec(2, 10)
ARM_SX_END == Dec(-2, 10)
LEG_SX_START == Num(0)
LEG_SX_END == Dec(2, 10)

interpolatePose_lifting(t) ==
    LET p == [k \in DOMAIN startPose_lifting |->
                 lerp(startPose_lifting[k], endPose_lifting[k], t)]
        p2 == [p EXCEPT
                 !.RIGHT_ELBOW = lerp(startPose_lifting.RIGHT_ELBOW, endPose_lifting.RIGHT_ELBOW, t),
                 !.LEFT_ELBOW = lerp(startPose_lifting.LEFT_ELBOW, endPose_lifting.LEFT_ELBOW, t)]
    IN  p2 @@ [RIGHT_ARM_SX |-> lerp(ARM_SX_START, ARM_SX_END, t),
               RIGHT_HIP_SX |-> lerp(LEG_SX_START, LEG_SX_END, t)]

(* spike (fencing.js, second module) *)

startPose_spike ==
    [BODY_LEAN_X |-> deg(0), BODY_LEAN_Y |-> deg(0), BODY_LEAN_Z |-> deg(30),
     HEAD_TILT |-> deg(-15),
     LEFT_SHOULDER |-> deg(100), RIGHT_SHOULDER |-> deg(-80),
     LEFT_ELBOW |-> deg(15), RIGHT_ELBOW |-> deg(-125),
     LEFT_HIP |-> deg(-60), RIGHT_HIP |-> deg(-30),
     LEFT_KNEE |-> deg(-70), RIGHT_KNEE |-> deg(-30)]

endPose_spike ==
    [BODY_LEAN_X |-> deg(0), BODY_LEAN_Y |-> deg(0), BODY_LEAN_Z |-> deg(-20),
     HEAD_TILT |-> deg(-15),
     LEFT_SHOULDER |-> deg(0), RIGHT_SHOULDER |-> deg(-310),
     LEFT_ELBOW |-> deg(70), RIGHT_ELBOW |-> deg(0),
     LEFT_HIP |-> deg(60), RIGHT_HIP |-> deg(60),
     LEFT_KNEE |-> deg(-10), RIGHT_KNEE |-> deg(-70)]

SX_START == Dec(-3, 10)
SX_END == Dec(3, 10)
SHOULDER_LIMIT == deg(-160)

\* the gated fields without the hold: the blend goes on past the threshold
gate_nohold(p) ==
    LET sh == p.RIGHT_SHOULDER
        k == Div(Sub(sh, startPose_spike.RIGHT_SHOULDER),
                  Sub(SHOULDER_LIMIT, startPose_spike.RIGHT_SHOULDER))
    IN  [p EXCEPT !.RIGHT_ELBOW = lerp(startPose_spike.RIGHT_ELBOW, Num(0), k)]
            @@ [RIGHT_ARM_SX |-> lerp(SX_START, SX_END, k)]

\* lines 1307-1319: RIGHT_ELBOW and RIGHT_ARM_SX gated by the shoulder
gate(p) ==
    LET sh == p.RIGHT_SHOULDER
        above == Lt(SHOULDER_LIMIT, sh)
        k == Div(Sub(sh, startPose_spike.RIGHT_SHOULDER),
                 Sub(SHOULDER_LIMIT, startPose_spike.RIGHT_SHOULDER))
    IN  [p EXCEPT !.RIGHT_ELBOW = If(above, lerp(startPose_spike.RIGHT_ELBOW, Num(0), k), Num(0))]
            @@ [RIGHT_ARM_SX |-> If(above, lerp(SX_START, SX_END, k), SX_END)]

interpolatePose_spike(t) ==
    gate([k \in DOMAIN startPose_spike |-> lerp(startPose_spike[k], endPose_spike[k], t)])

startPose(v) == IF v = "lifting" THEN startPose_lifting ELSE startPose_spike
endPose(v) == IF v = "lifting" THEN endPose_lifting ELSE endPose_spike
interpolatePose(v, t) ==
    IF v = "lifting" THEN interpolatePose_lifting(t) ELSE interpolatePose_spike(t)

(* lifting and spike: progress of render(now) *)

DURATION == 1000
LOOP == TRUE

\* lines 1419-1427 / 707-715: let t = elapsed / DURATION; ping-pong or clamp
progress(elapsed) ==
    LET t == Div(elapsed, Num(DURATION))
    IN  IF LOOP
        THEN LET cycle == Floor(t)
                 f == Sub(t, cycle)
             IN  If(IsOdd(cycle), Sub(Num(1), f), f)
        ELSE Min(t, Num(1))

(* running (part_001): limb angles from the sine phases *)

backLegMaxAngle == Div(PI, Num(12))
frontLegMaxAngle == Div(PI, Num(2))

legAngle_swapped(phase) ==
    If(Lt(phase, Num(0)), Mul(phase, frontLegMaxAngle), Mul(phase, backLegMaxAngle))

\* lines 734-751: leftLegAngle / rightLegAngle
legAngle(phase) ==
    If(Lt(phase, Num(0)), Mul(phase, backLegMaxAngle), Mul(phase, frontLegMaxAngle))

kneeAngle_other(phase, angle) ==
    If(Le(Num(0), phase), Neg(Add(angle, Div(PI, Num(4)))), Num(0))

\* lines 785-806: leftKneeAngle / rightKneeAngle
kneeAngle(phase, angle) ==
    If(Lt(Num(0), phase), Neg(Add(angle, Div(PI, Num(4)))), Num(0))

\* lines 717-822 with sin_t the value of Math.sin(t) and sin_tpi the value
\* of Math.sin(t + Math.PI)
gait(sin_t, sin_tpi) ==
    LET leftLegPhase == sin_tpi
        rightLegPhase == sin_t
        leftLegAngle == legAngle(leftLegPhase)
        rightLegAngle == legAngle(rightLegPhase)
    IN  [leftLegPhase |-> leftLegPhase,
         rightLegPhase |-> rightLegPhase,
         leftHipAngle |-> leftLegAngle,
         rightHipAngle |-> rightLegAngle,
         leftKneeAngle |-> kneeAngle(leftLegPhase, leftLegAngle),
         rightKneeAngle |-> kneeAngle(rightLegPhase, rightLegAngle)]

----------------------------------------------------------------------------
(* The pose generators applied to inputs from bounded grids (SpecFn)       *)

\* progress values n / TGrid; a multiple of 23 puts the spike threshold
\* t = 8/23 (shoulder = SHOULDER_LIMIT) on the grid
TGrid == 23 * TSteps

PoseVariants == {"lifting", "spike"}

StackIdle ==
    /\ stk = MatrixStack
    /\ lastOp = "new"
    /\ changed = FALSE
    /\ pushed = <<>>

\* 2^-40
PhaseSlack == [s |-> 1, m |-> <<0, 0, 0, 128>>, e |-> -92]

\* The two sines of a running frame.  Math.sin(t + Math.PI) is the negative
\* of Math.sin(t) only up to the rounding of t + Math.PI: it is an input of
\* its own, within PhaseSlack of -Math.sin(t) and within [-1, 1].
SinPairs(grid) ==
    {[x |-> Div(Num(p[1]), Num(grid)),
      y |-> Add(Neg(Div(Num(p[1]), Num(grid))), Mul(Num(p[2]), PhaseSlack))] :
        p \in {q \in ((-grid)..grid) \X (-1..1) :
                  /\ q[1] = grid => q[2] >= 0
                  /\ q[1] = -grid => q[2] <= 0}}

Inputs(v) ==
    IF v \in PoseVariants
    THEN {[for |-> "interpolatePose", n |-> n, x |-> Div(Num(n), Num(TGrid))] : n \in 0..TGrid}
           \cup {[for |-> "progress", n |-> e, x |-> Num(e)] : e \in 0..MaxElapsed}
           \cup (IF v = "spike"
                 THEN {[for |-> "spike", n |-> n, x |-> Div(Num(n), Num(TGrid))] : n \in 0..TGrid}
                 ELSE {})
    ELSE IF v = "running"
    THEN {[for |-> "gait", x |-> p.x, y |-> p.y] : p \in SinPairs(SinGrid)}
    ELSE {}

InitFn ==
    /\ variant \in {"lifting", "spike", "running"}
    /\ StackIdle
    /\ DrawIdle
    /\ FrameIdle
    /\ fn = "none"
    /\ arg \in Inputs(variant)
    /\ out = <<>>

\* the function is called and its result read
Apply(f, result) ==
    /\ fn = "none"
    /\ arg.for = f
    /\ fn' = f
    /\ out' = EvAll(result)
    /\ UNCHANGED <<variant, arg, stackVars, drawVars, frameVars>>

InterpolatePose == Apply("interpolatePose", interpolatePose(variant, arg.x))

Progress == Apply("progress", [t |-> progress(arg.x)])

Gait == Apply("gait", gait(arg.x, arg.y))

HIT_T == Dec(5, 10)
BALL_START == <<Dec(6, 10), Dec(24, 10), Dec(4, 10)>>
BALL_END == <<Num(8), Num(1), Dec(2, 10)>>

\* fencing.js lines 1327-1338
interpolateBall(t) ==
    LET s == Div(Sub(t, HIT_T), Sub(Num(1), HIT_T))
    IN  [i \in 1..3 |->
            If(Lt(t, HIT_T), BALL_START[i],
               Add(BALL_START[i], Mul(Sub(BALL_END[i], BALL_START[i]), s)))]

\* fencing.js lines 1430 and 1451: the spike frame's pose and ball position
\* for the same progress t
spikeFrame(t) ==
    LET pose == interpolatePose_spike(t)
        ballPos == interpolateBall(t)
    IN  [RIGHT_SHOULDER |-> pose.RIGHT_SHOULDER,
         RIGHT_ARM_SX |-> pose.RIGHT_ARM_SX,
         ball1 |-> ballPos[1], ball2 |-> ballPos[2], ball3 |-> ballPos[3]]

Spike == Apply("spike", spikeFrame(arg.x))

NextFn == InterpolatePose \/ Progress \/ Gait \/ Spike

SpecFn == InitFn /\ [][NextFn]_vars

----------------------------------------------------------------------------
(* Claims about the pose generators *)

\* C6: interpolatePose(0) returns, for every field of startPose, exactly the
\* startPose value, and interpolatePose(1) returns, for every field of
\* endPose, exactly the endPose value, in the lifting and in the spike
\* variant, the fields overwritten after the generic loop included.
C6_PoseBoundary ==
    fn = "interpolatePose" =>
        /\ Ev(arg.x) = F(0) =>
             \A k \in DOMAIN startPose(variant) : out[k] = Ev(startPose(variant)[k])
        /\ Ev(arg.x) = F(1) =>
             \A k \in DOMAIN endPose(variant) : out[k] = Ev(endPose(variant)[k])

\* C7: with LOOP enabled and D = DURATION, the progress computed by render
\* for elapsed time e equals the one for 2D - e for every e in [0, D]; the
\* progress lies in [0, 1], is 0 at e = 0 and e = 2D, is 1 at e = D, and is
\* periodic with period 2D.
C7_PingPong ==
    fn = "progress" =>
        LET e == arg.n
            D == DURATION
        IN  /\ FLe(F(0), out.t) /\ FLe(out.t, F(1))
            /\ (e = 0 \/ e = 2 * D) => out.t = F(0)
            /\ e = D => out.t = F(1)
            /\ e <= D => out.t = Ev(progress(Num(2 * D - e)))
            /\ out.t = Ev(progress(Num(e + 2 * D)))

\* |endShoulder - startShoulder| / |SHOULDER_LIMIT - startShoulder|: how much
\* faster than t the blend factor k runs
GateSlope ==
    FDiv(FAbs(Ev(Sub(endPose_spike.RIGHT_SHOULDER, startPose_spike.RIGHT_SHOULDER))),
         FAbs(Ev(Sub(SHOULDER_LIMIT, startPose_spike.RIGHT_SHOULDER))))

\* allowance for the rounding of the doubles in a bound on a difference
Rounding == FAdd(F(1), PhaseSlack)

\* C8: in the spike variant, while the interpolated RIGHT_SHOULDER is above
\* SHOULDER_LIMIT (-160 degrees), RIGHT_ELBOW and RIGHT_ARM_SX are blended
\* with k = (shoulder - startShoulder) / (SHOULDER_LIMIT - startShoulder)
\* (elbow from its start value toward 0, RIGHT_ARM_SX from SX_START toward
\* SX_END); at or beyond the limit both are held at 0 and SX_END; for every
\* t in [0, 1] neither goes beyond its end value, and from one grid point to
\* the next neither moves by more than the slope of its blend allows (no
\* jump at the threshold).
C8_GatedElbow ==
    (fn = "interpolatePose" /\ variant = "spike") =>
        LET sh == out.RIGHT_SHOULDER
            sh0 == Ev(startPose_spike.RIGHT_SHOULDER)
            sh1 == Ev(endPose_spike.RIGHT_SHOULDER)
            e0 == Ev(startPose_spike.RIGHT_ELBOW)
            limit == Ev(SHOULDER_LIMIT)
            sx0 == Ev(SX_START)
            sx1 == Ev(SX_END)
            k == FDiv(FSub(sh, sh0), FSub(limit, sh0))
            h == FDiv(F(1), F(TGrid))
            nxt == EvAll(interpolatePose_spike(Div(Num(arg.n + 1), Num(TGrid))))
        IN  /\ sh = FAdd(sh0, FMul(FSub(sh1, sh0), Ev(arg.x)))
            /\ FLt(limit, sh) =>
                 /\ out.RIGHT_ELBOW = FAdd(e0, FMul(FSub(F(0), e0), k))
                 /\ out.RIGHT_ARM_SX = FAdd(sx0, FMul(FSub(sx1, sx0), k))
            /\ FLe(sh, limit) =>
                 /\ out.RIGHT_ELBOW = F(0)
                 /\ out.RIGHT_ARM_SX = sx1
            /\ FLe(e0, out.RIGHT_ELBOW) /\ FLe(out.RIGHT_ELBOW, F(0))
            /\ FLe(sx0, out.RIGHT_ARM_SX) /\ FLe(out.RIGHT_ARM_SX, sx1)
            /\ arg.n < TGrid =>
                 /\ FLe(FAbs(FSub(nxt.RIGHT_ELBOW, out.RIGHT_ELBOW)),
                        FMul(FMul(FMul(FAbs(e0), GateSlope), h), Rounding))
                 /\ FLe(FAbs(FSub(nxt.RIGHT_ARM_SX, out.RIGHT_ARM_SX)),
                        FMul(FMul(FMul(FSub(sx1, sx0), GateSlope), h), Rounding))

\* the first grid pose at or beyond the threshold: the hold has taken over
\* from a blend that was still under way one grid point earlier
C8_Witness ==
    /\ fn = "interpolatePose"
    /\ variant = "spike"
    /\ arg.n > 0
    /\ FLe(out.RIGHT_SHOULDER, Ev(SHOULDER_LIMIT))
    /\ out.RIGHT_ELBOW = F(0)
    /\ out.RIGHT_ARM_SX = Ev(SX_END)
    /\ LET prev == EvAll(interpolatePose_spike(Div(Num(arg.n - 1), Num(TGrid))))
       IN  /\ FLt(Ev(SHOULDER_LIMIT), prev.RIGHT_SHOULDER)
           /\ prev.RIGHT_ELBOW # F(0)
           /\ prev.RIGHT_ARM_SX # Ev(SX_END)

HipOf(phase, hip) ==
    /\ FLt(phase, F(0)) => hip = FMul(phase, Ev(deg(15)))
    /\ FLe(F(0), phase) => hip = FMul(phase, Ev(deg(90)))
    /\ FLe(Ev(deg(-15)), hip) /\ FLe(hip, Ev(deg(90)))

\* C9: in the running variant each hip angle is phase * backLegMaxAngle
\* (15 degrees) when that leg's sine phase is negative and phase *
\* frontLegMaxAngle (90 degrees) when it is zero or positive; the backward
\* amplitude is strictly smaller than the forward one, so every hip angle
\* lies in [-15, +90] degrees.
C9_HipAsymmetry ==
    fn = "gait" =>
        /\ Ev(backLegMaxAngle) = Ev(deg(15))
        /\ Ev(frontLegMaxAngle) = Ev(deg(90))
        /\ FLt(Ev(backLegMaxAngle), Ev(frontLegMaxAngle))
        /\ HipOf(out.leftLegPhase, out.leftHipAngle)
        /\ HipOf(out.rightLegPhase, out.rightHipAngle)

\* sin(t) = 1: the right leg fully forward, the left leg fully back
C9_Witness ==
    /\ fn = "gait"
    /\ out.rightLegPhase = F(1)
    /\ out.leftLegPhase = F(-1)
    /\ out.rightHipAngle = Ev(deg(90))
    /\ out.leftHipAngle = Ev(deg(-15))

KneeOf(hip) == IF FLt(F(0), hip) THEN FNeg(FAdd(hip, Ev(deg(45)))) ELSE F(0)

GaitTable == {EvAll(gait(p.x, p.y)) : p \in SinPairs(SinGrid)}

\* C10: in the running variant a leg's knee angle is a function of that
\* leg's hip angle in the same frame and of nothing else: -(hip + 45
\* degrees) when the hip angle is positive, 0 otherwise; two frames, or the
\* two legs, with equal hip angle have equal knee angle.
C10_KneeFromHip ==
    fn = "gait" =>
        /\ out.leftKneeAngle = KneeOf(out.leftHipAngle)
        /\ out.rightKneeAngle = KneeOf(out.rightHipAngle)
        /\ out.leftHipAngle = out.rightHipAngle => out.leftKneeAngle = out.rightKneeAngle
        /\ \A g \in GaitTable :
             /\ g.rightHipAngle = out.rightHipAngle => g.rightKneeAngle = out.rightKneeAngle
             /\ g.leftHipAngle = out.rightHipAngle => g.leftKneeAngle = out.rightKneeAngle
             /\ g.leftHipAngle = out.leftHipAngle => g.leftKneeAngle = out.leftKneeAngle

\* a frame with the right leg forward (bent knee) and the left leg trailing
C10_Witness ==
    /\ fn = "gait"
    /\ FLt(F(0), out.rightHipAngle)
    /\ out.rightKneeAngle = FNeg(FAdd(out.rightHipAngle, Ev(deg(45))))
    /\ FLt(out.leftHipAngle, F(0))
    /\ out.leftKneeAngle = F(0)

\* the ball position of the frame
Ball == <<out.ball1, out.ball2, out.ball3>>

\* C26: in the spike variant the ball stays at BALL_START for every
\* t < HIT_T; it starts moving exactly where the interpolated RIGHT_SHOULDER
\* passes SHOULDER_LIMIT, which is where RIGHT_ARM_SX reaches SX_END: the
\* ball is away from BALL_START in exactly the frames whose shoulder is
\* beyond the limit; it moves linearly afterwards and is at BALL_END at
\* t = 1.
C26_BallLeavesAtLimit ==
    fn = "spike"
    => LET t == Ev(arg.x)
           limit == Ev(SHOULDER_LIMIT)
           s == FDiv(FSub(t, Ev(HIT_T)), FSub(F(1), Ev(HIT_T)))
       IN  /\ FLt(t, Ev(HIT_T)) => Ball = EvAll(BALL_START)
           /\ out.RIGHT_ARM_SX = Ev(SX_END) <=> FLe(out.RIGHT_SHOULDER, limit)
           /\ Ball # EvAll(BALL_START) <=> FLt(out.RIGHT_SHOULDER, limit)
           /\ FLe(Ev(HIT_T), t)
              => Ball = [i \in 1..3 |->
                           FAdd(Ev(BALL_START[i]),
                                FMul(FSub(Ev(BALL_END[i]), Ev(BALL_START[i])), s))]
           /\ t = F(1) => Ball = EvAll(BALL_END)

----------------------------------------------------------------------------
(* The drawers.  A routine is modelled by the sequence of the stack        *)
(* operations and draw calls it executes, in source order; the joint       *)
(* angles only enter as arguments of rotations, as in the source, where no *)
(* drawer branches on them.  "enter" / "exit" mark a routine's call and    *)
(* return for the observers.                                               *)

Ins(op, x, name) == [op |-> op, x |-> x, name |-> name]

iPush == <<Ins("push", <<>>, <<"", "">>)>>
iPop == <<Ins("pop", <<>>, <<"", "">>)>>
iLoadIdentity == <<Ins("loadIdentity", <<>>, <<"", "">>)>>
iTranslate(v) == <<Ins("apply", T(v), <<"", "">>)>>
iRotate(rad, axis) == <<Ins("apply", R(rad, axis), <<"", "">>)>>
iScale(v) == <<Ins("apply", S(v), <<"", "">>)>>
iDraw(part, side) == <<Ins("draw", <<>>, <<part, side>>)>>

Call(name, side, code) ==
    <<Ins("enter", <<>>, <<name, side>>)>> \o code \o <<Ins("exit", <<>>, <<name, side>>)>>

X_AXIS == <<Num(1), Num(0), Num(0)>>
Y_AXIS == <<Num(0), Num(1), Num(0)>>
Z_AXIS == <<Num(0), Num(0), Num(1)>>

Sign(side) == IF side = "left" THEN Num(-1) ELSE Num(1)

(* fencing (fencing.js, first module) and running (part_001) *)

drawBody ==
    Call("drawBody", "",
         iPush \o iScale(<<Dec(5, 10), Dec(15, 10), Dec(25, 100)>>)
               \o iDraw("body", "") \o iPop)

drawHead(headTilt) ==
    Call("drawHead", "",
         iPush \o iTranslate(<<Num(0), Dec(11, 10), Num(0)>>)
               \o iRotate(headTilt, X_AXIS)
               \o iDraw("head", "") \o iPop)

HAND_RADIUS == Dec(12, 100)

\* the hand sphere and the sword without the pop that closes their scope
swordHand_leak(lowerArmLength, jointSize) ==
    iPush \o iTranslate(<<Num(0), Neg(Add(Div(lowerArmLength, Num(2)), jointSize)), Num(0)>>)
          \o iPush \o iScale(<<HAND_RADIUS, HAND_RADIUS, HAND_RADIUS>>)
                   \o iDraw("hand", "right") \o iPop
          \o iTranslate(<<Num(0), Neg(Add(jointSize, lowerArmLength)), Num(0)>>)
          \o iDraw("sword", "right")

\* fencing.js lines 578-616: if (side === "right") { hand sphere, sword }
swordHand(lowerArmLength, jointSize) ==
    iPush \o iTranslate(<<Num(0), Neg(Add(Div(lowerArmLength, Num(2)), jointSize)), Num(0)>>)
          \o iPush \o iScale(<<HAND_RADIUS, HAND_RADIUS, HAND_RADIUS>>)
                   \o iDraw("hand", "right") \o iPop
          \o iTranslate(<<Num(0), Neg(Add(jointSize, lowerArmLength)), Num(0)>>)
          \o iDraw("sword", "right")
          \o iPop

\* fencing.js lines 515-622; part_001 lines 495-561 is the same routine
\* without the side === "right" block
drawArm(v, side, shoulderAngle, elbowAngle) ==
    LET sign == Sign(side)
        shoulderYOffset == Dec(5, 10)
        shoulderXOffset == Dec(3, 10)
        shoulderZOffset == Dec(3, 10)
        upperArmLength == Dec(6, 10)
        lowerArmLength == Dec(6, 10)
        jointSize == Dec(1, 10)
    IN  Call("drawArm", side,
             iPush
             \o iTranslate(<<Mul(sign, shoulderXOffset), shoulderYOffset,
                             Mul(sign, shoulderZOffset)>>)
             \o iRotate(shoulderAngle, Z_AXIS)
             \o iPush \o iScale(<<Dec(2, 10), Dec(2, 10), Dec(2, 10)>>)
                      \o iDraw("shoulder", side) \o iPop
             \o iPush \o iTranslate(<<Num(0), Neg(Add(jointSize, Div(upperArmLength, Num(2)))), Num(0)>>)
                      \o iScale(<<Dec(15, 100), upperArmLength, Dec(15, 100)>>)
                      \o iDraw("upperArm", side) \o iPop
             \o iTranslate(<<Num(0), Neg(Add(Add(jointSize, upperArmLength), jointSize)), Num(0)>>)
             \o iRotate(elbowAngle, Z_AXIS)
             \o iPush \o iScale(<<Dec(18, 100), Dec(18, 100), Dec(18, 100)>>)
                      \o iDraw("elbow", side) \o iPop
             \o iPush \o iTranslate(<<Num(0), Neg(Add(jointSize, Div(lowerArmLength, Num(2)))), Num(0)>>)
                      \o (IF v = "fencing" /\ side = "right"
                          THEN swordHand(lowerArmLength, jointSize) ELSE <<>>)
                      \o iScale(<<Dec(12, 100), lowerArmLength, Dec(12, 100)>>)
                      \o iDraw("lowerArm", side) \o iPop
             \o iPop)

\* fencing.js lines 624-704 (part_001 lines 563-643)
drawLeg(side, hipAngle, kneeAngle_) ==
    LET sign == Sign(side)
        hipYOffset == Dec(-75, 100)
        hipXOffset == Dec(2, 10)
        hipZOffset == Dec(25, 100)
        upperLegLength == Dec(8, 10)
        lowerLegLength == Dec(7, 10)
        jointSize == Dec(125, 1000)
    IN  Call("drawLeg", side,
             iPush
             \o iTranslate(<<Mul(sign, hipXOffset), hipYOffset, Mul(sign, hipZOffset)>>)
             \o iRotate(hipAngle, Z_AXIS)
             \o iPush \o iScale(<<Dec(25, 100), Dec(25, 100), Dec(25, 100)>>)
                      \o iDraw("hip", side) \o iPop
             \o iPush \o iTranslate(<<Num(0), Neg(Add(jointSize, Div(upperLegLength, Num(2)))), Num(0)>>)
                      \o iScale(<<Dec(18, 100), upperLegLength, Dec(18, 100)>>)
                      \o iDraw("upperLeg", side) \o iPop
             \o iTranslate(<<Num(0), Neg(Add(Add(jointSize, upperLegLength), jointSize)), Num(0)>>)
             \o iRotate(kneeAngle_, Z_AXIS)
             \o iPush \o iScale(<<Dec(2, 10), Dec(2, 10), Dec(2, 10)>>)
                      \o iDraw("knee", side) \o iPop
             \o iPush \o iTranslate(<<Num(0), Neg(Add(jointSize, Div(lowerLegLength, Num(2)))), Num(0)>>)
                      \o iScale(<<Dec(15, 100), lowerLegLength, Dec(15, 100)>>)
                      \o iDraw("lowerLeg", side) \o iPop
             \o iTranslate(<<Num(0), Neg(Add(jointSize, lowerLegLength)), Num(0)>>)
             \o iPush \o iScale(<<Dec(15, 100), Dec(15, 100), Dec(15, 100)>>)
                      \o iDraw("ankle", side) \o iPop
             \o iPop)

\* fencing.js lines 706-744 (part_001 lines 645-683)
drawCharacter(v, animations) ==
    Call("drawCharacter", "",
         iPush
         \o drawBody
         \o drawHead(animations.headTilt)
         \o drawArm(v, "left", animations.leftShoulderAngle, animations.leftElbowAngle)
         \o drawArm(v, "right", animations.rightShoulderAngle, animations.rightElbowAngle)
         \o drawLeg("left", animations.leftHipAngle, animations.leftKneeAngle)
         \o drawLeg("right", animations.rightHipAngle, animations.rightKneeAngle)
         \o iPop)

(* spike (fencing.js, second module) and lifting (part_000) *)

iCapture == <<Ins("capture", <<>>, <<"", "">>)>>

body ==
    Call("body", "",
         iPush \o iScale(<<Dec(5, 10), Dec(15, 10), Dec(25, 100)>>)
               \o iDraw("body", "") \o iPop)

head(tilt) ==
    Call("head", "",
         iPush \o iTranslate(<<Num(0), Dec(11, 10), Num(0)>>)
               \o iRotate(tilt, X_AXIS)
               \o iDraw("head", "") \o iPop)

\* the hand scope with the capture made after the scope is closed
handScope_late(side, j, lower) ==
    iPush \o iTranslate(<<Num(0), Neg(Add(Add(j, lower), Mul(j, Dec(8, 10)))), Num(0)>>)
          \o iScale(<<Dec(15, 100), Dec(15, 100), Dec(15, 100)>>)
          \o iDraw("hand", side)
          \o iPop
          \o iCapture

\* part_000 lines 385-391: hand sphere; const handModel =
\* mat4.clone(stk.getCurrentMatrix()) before the scope's pop
handScope(side, j, lower) ==
    iPush \o iTranslate(<<Num(0), Neg(Add(Add(j, lower), Mul(j, Dec(8, 10)))), Num(0)>>)
          \o iScale(<<Dec(15, 100), Dec(15, 100), Dec(15, 100)>>)
          \o iDraw("hand", side)
          \o iCapture
          \o iPop

\* fencing.js lines 1151-1187 (spike) and part_000 lines 349-394 (lifting)
arm(v, side, shoulder, elbow, customSX) ==
    LET sg == Sign(side)
        sY == Dec(5, 10)
        sX == customSX
        sZ == IF v = "lifting" THEN Dec(5, 10) ELSE Dec(3, 10)
        upper == Dec(6, 10)
        lower == Dec(6, 10)
        j == Dec(1, 10)
    IN  Call("arm", side,
             iPush
             \o iTranslate(<<IF v = "lifting" THEN sX ELSE Mul(sg, sX), sY, Mul(sg, sZ)>>)
             \o iRotate(shoulder, Z_AXIS)
             \o iPush \o iScale(<<Dec(2, 10), Dec(2, 10), Dec(2, 10)>>)
                      \o iDraw("shoulder", side) \o iPop
             \o iPush \o iTranslate(<<Num(0), Neg(Add(j, Div(upper, Num(2)))), Num(0)>>)
                      \o iScale(<<Dec(15, 100), upper, Dec(15, 100)>>)
                      \o iDraw("upperArm", side) \o iPop
             \o iTranslate(<<Num(0), Neg(Add(Add(j, upper), j)), Num(0)>>)
             \o iRotate(elbow, Z_AXIS)
             \o iPush \o iScale(<<Dec(18, 100), Dec(18, 100), Dec(18, 100)>>)
                      \o iDraw("elbow", side) \o iPop
             \o iPush \o iTranslate(<<Num(0), Neg(Add(j, Div(lower, Num(2)))), Num(0)>>)
                      \o iScale(<<Dec(12, 100), lower, Dec(12, 100)>>)
                      \o iDraw("lowerArm", side) \o iPop
             \o (IF v = "lifting" THEN handScope(side, j, lower) ELSE <<>>)
             \o iPop)

\* fencing.js lines 1188-1220 (spike, hX = 0) and part_000 lines 395-427
\* (lifting, hX = customSX)
leg(v, side, hip, knee, customSX) ==
    LET sg == Sign(side)
        hY == Dec(-75, 100)
        hX == IF v = "lifting" THEN customSX ELSE Num(0)
        hZ == Dec(25, 100)
        upper == Dec(8, 10)
        lower == Dec(7, 10)
        j == Dec(125, 1000)
    IN  Call("leg", side,
             iPush
             \o iTranslate(<<IF v = "lifting" THEN hX ELSE Mul(sg, hX), hY, Mul(sg, hZ)>>)
             \o iRotate(hip, Z_AXIS)
             \o iPush \o iScale(<<Dec(25, 100), Dec(25, 100), Dec(25, 100)>>)
                      \o iDraw("hip", side) \o iPop
             \o iPush \o iTranslate(<<Num(0), Neg(Add(j, Div(upper, Num(2)))), Num(0)>>)
                      \o iScale(<<Dec(18, 100), upper, Dec(18, 100)>>)
                      \o iDraw("upperLeg", side) \o iPop
             \o iTranslate(<<Num(0), Neg(Add(Add(j, upper), j)), Num(0)>>)
             \o iRotate(knee, Z_AXIS)
             \o iPush \o iScale(<<Dec(2, 10), Dec(2, 10), Dec(2, 10)>>)
                      \o iDraw("knee", side) \o iPop
             \o iPush \o iTranslate(<<Num(0), Neg(Add(j, Div(lower, Num(2)))), Num(0)>>)
                      \o iScale(<<Dec(15, 100), lower, Dec(15, 100)>>)
                      \o iDraw("lowerLeg", side) \o iPop
             \o iPop)

\* fencing.js lines 1221-1230 (spike) and part_000 lines 525-542 (lifting)
character(v, p) ==
    Call("character", "",
         iPush
         \o body
         \o head(p.HEAD_TILT)
         \o arm(v, "left", p.LEFT_SHOULDER, p.LEFT_ELBOW, p.RIGHT_ARM_SX)
         \o arm(v, "right", p.RIGHT_SHOULDER, p.RIGHT_ELBOW, p.RIGHT_ARM_SX)
         \o (IF v = "lifting"
             THEN leg(v, "left", p.LEFT_HIP, p.LEFT_KNEE, Neg(p.RIGHT_HIP_SX))
                  \o leg(v, "right", p.RIGHT_HIP, p.RIGHT_KNEE, p.RIGHT_HIP_SX)
             ELSE leg(v, "left", p.LEFT_HIP, p.LEFT_KNEE, Num(0))
                  \o leg(v, "right", p.RIGHT_HIP, p.RIGHT_KNEE, Num(0)))
         \o iPop)

(* lifting: drawBarbell(L, R).  mid, len, ang and axis are computed from    *)
(* the two hand matrices; the word model carries them as symbols.  Which   *)
(* of the three orientation cases applies (axisLen > 1e-5, dot < 0, or     *)
(* neither) depends on the hand positions and is an input of the frame.    *)

Sym(name, sign) == [k |-> name, a |-> sign, v |-> <<>>]

BarbellBranches == {"rotate", "flip", "none"}

\* part_000 lines 482-491 and 506-513
orient(branch) ==
    IF branch = "rotate" THEN <<Ins("apply", Sym("R(ang, axis)", <<>>), <<"", "">>)>>
    ELSE IF branch = "flip" THEN iRotate(deg(180), X_AXIS)
    ELSE <<>>

\* part_000 lines 501-518, one iteration of [1, -1].forEach
drawPlateAt(branch, sign) ==
    iPush \o <<Ins("apply", Sym("T(mid)", <<>>), <<"", "">>)>>
          \o orient(branch)
          \o <<Ins("apply", Sym("T(0, sign * plateOffset, 0)", sign), <<"", "">>)>>
          \o iDraw("plate", "")
          \o iPop

\* part_000 lines 453-523
drawBarbell(branch) ==
    Call("drawBarbell", "",
         <<Ins("stkTop", <<>>, <<"", "">>)>>
         \o iPush \o <<Ins("apply", Sym("T(mid)", <<>>), <<"", "">>)>>
                  \o orient(branch)
                  \o <<Ins("apply", Sym("S(1, len, 1)", <<>>), <<"", "">>)>>
                  \o iDraw("bar", "")
                  \o iPop
         \o drawPlateAt(branch, Num(1))
         \o drawPlateAt(branch, Num(-1))
         \o <<Ins("leakcheck", <<>>, <<"", "">>)>>)

----------------------------------------------------------------------------
(* The frames: render() of each variant *)

(* fencing *)

startPose_fencing ==
    [leftShoulder |-> deg(-20), rightShoulder |-> deg(20),
     leftElbow |-> Num(0), rightElbow |-> Num(0),
     leftHip |-> deg(-10), rightHip |-> deg(10),
     leftKnee |-> Num(0), rightKnee |-> Num(0),
     bodyLean |-> Num(0), headTilt |-> deg(0)]

lungePose ==
    [leftShoulder |-> deg(-65), rightShoulder |-> deg(90),
     leftElbow |-> Num(0), rightElbow |-> Num(0),
     leftHip |-> deg(-45), rightHip |-> deg(60),
     leftKnee |-> Num(0), rightKnee |-> deg(-105),
     bodyLean |-> deg(20), headTilt |-> deg(-5)]

\* fencing.js lines 864-880
animations_fencing(t) ==
    [leftShoulderAngle |-> lerp(startPose_fencing.leftShoulder, lungePose.leftShoulder, t),
     rightShoulderAngle |-> lerp(startPose_fencing.rightShoulder, lungePose.rightShoulder, t),
     leftElbowAngle |-> lerp(startPose_fencing.leftElbow, lungePose.leftElbow, t),
     rightElbowAngle |-> lerp(startPose_fencing.rightElbow, lungePose.rightElbow, t),
     leftHipAngle |-> lerp(startPose_fencing.leftHip, lungePose.leftHip, t),
     rightHipAngle |-> lerp(startPose_fencing.rightHip, lungePose.rightHip, t),
     leftKneeAngle |-> lerp(startPose_fencing.leftKnee, lungePose.leftKnee, t),
     rightKneeAngle |-> lerp(startPose_fencing.rightKnee, lungePose.rightKnee, t),
     headTilt |-> lerp(startPose_fencing.headTilt, lungePose.headTilt, t)]

\* fencing.js lines 859-882, t the clamped progress
render_fencing(t) ==
    iLoadIdentity
    \o iRotate(lerp(startPose_fencing.bodyLean, lungePose.bodyLean, t), X_AXIS)
    \o drawCharacter("fencing", animations_fencing(t))

(* running *)

shoulderSwingAngle == Div(PI, Dec(25, 10))
shoulderLiftAngle == Div(PI, Num(6))
maxElbowBend == Div(PI, Num(2))
backElbowExtend == Div(Neg(PI), Num(4))

\* part_001 lines 756-761: leftArmAngle / rightArmAngle
armAngle(phase) ==
    Add(Mul(phase, shoulderSwingAngle),
        If(Lt(Num(0), phase), shoulderLiftAngle, Num(0)))

\* part_001 lines 769-782: leftElbowAngle / rightElbowAngle
elbowAngle(phase) ==
    If(Lt(Num(0), phase), Mul(phase, maxElbowBend), Mul(phase, backElbowExtend))

\* part_001 lines 809-822, sin_t the value of Math.sin(t) and sin_tpi the
\* value of Math.sin(t + Math.PI)
animations_running(sin_t, sin_tpi) ==
    LET g == gait(sin_t, sin_tpi)
    IN  [leftShoulderAngle |-> armAngle(sin_t),
         rightShoulderAngle |-> armAngle(sin_tpi),
         leftElbowAngle |-> elbowAngle(sin_t),
         rightElbowAngle |-> elbowAngle(sin_tpi),
         leftHipAngle |-> g.leftHipAngle,
         rightHipAngle |-> g.rightHipAngle,
         leftKneeAngle |-> g.leftKneeAngle,
         rightKneeAngle |-> g.rightKneeAngle,
         headTilt |-> Div(PI, Num(12))]

\* part_001 lines 712-828
render_running(sin_t, sin_tpi) ==
    iLoadIdentity
    \o iRotate(Div(Neg(PI), Num(4)), Z_AXIS)
    \o iTranslate(<<Num(0), Num(0), Num(0)>>)
    \o drawCharacter("running", animations_running(sin_t, sin_tpi))

(* spike *)

\* the spike frame with the ball's scope left open
render_spike_open(t) ==
    LET pose == interpolatePose("spike", t)
    IN  iLoadIdentity
        \o iRotate(pose.BODY_LEAN_X, X_AXIS)
        \o iRotate(pose.BODY_LEAN_Y, Y_AXIS)
        \o iRotate(pose.BODY_LEAN_Z, Z_AXIS)
        \o character("spike", pose)
        \o iPush \o iLoadIdentity \o iTranslate(interpolateBall(t))
                 \o iDraw("ball", "")

\* fencing.js lines 1430-1454, t the ping-pong progress
render_spike(t) ==
    LET pose == interpolatePose("spike", t)
    IN  iLoadIdentity
        \o iRotate(pose.BODY_LEAN_X, X_AXIS)
        \o iRotate(pose.BODY_LEAN_Y, Y_AXIS)
        \o iRotate(pose.BODY_LEAN_Z, Z_AXIS)
        \o character("spike", pose)
        \o iPush \o iLoadIdentity \o iTranslate(interpolateBall(t))
                 \o iDraw("ball", "") \o iPop

(* lifting *)

\* part_000 lines 719-753, t the ping-pong progress
render_lifting(t, branch) ==
    LET pose == interpolatePose("lifting", t)
    IN  iLoadIdentity
        \o iRotate(pose.BODY_LEAN_X, X_AXIS)
        \o iRotate(pose.BODY_LEAN_Y, Y_AXIS)
        \o iRotate(pose.BODY_LEAN_Z, Z_AXIS)
        \o character("lifting", pose)
        \o drawBarbell(branch)

render(v, x, y, branch) ==
    IF v = "fencing" THEN render_fencing(x)
    ELSE IF v = "running" THEN render_running(x, y)
    ELSE IF v = "spike" THEN render_spike(x)
    ELSE render_lifting(x, branch)

----------------------------------------------------------------------------
(* Drawing frames, one stack operation or draw call per step (SpecDraw)    *)

\* the frame inputs: progress n / PoseSteps (fencing, spike, lifting), or
\* the two sines of the running phase
FrameInputs(v) ==
    IF v = "running"
    THEN {[for |-> "render", x |-> p.x, y |-> p.y, branch |-> "none"] :
            p \in SinPairs(PoseSteps)}
    ELSE {[for |-> "render", x |-> Div(Num(n), Num(PoseSteps)), y |-> Num(0), branch |-> b] :
            n \in 0..PoseSteps,
            b \in (IF v = "lifting" THEN BarbellBranches ELSE {"none"})}

\* const handModel = mat4.clone(stk.getCurrentMatrix()); the locals
\* handModel / leftHandM / rightHandM are the registers
capture(m) ==
    [alloc(m, clone(m.heap[getCurrentMatrix(m)])) EXCEPT !.regs = Append(@, NewId(m))]

\* the call evaluates its arguments
applyOp(m, x) ==
    LET args == EvAll(IF x.k = "R" THEN <<x.a>> \o x.v ELSE x.v)
    IN  IF x.k = "T" THEN translate(m, args)
        ELSE IF x.k = "R" THEN rotate(m, args[1], Tail(args))
        ELSE IF x.k = "S" THEN scale(m, args)
        ELSE [m EXCEPT !.heap[m.current] = Append(@, x)]

InitDraw ==
    /\ variant \in StackVariants
    /\ StackIdle
    /\ FnIdle
    /\ DrawIdle
    /\ FrameIdle

At(op) ==
    /\ pc > 0
    /\ stk.thrown = "none"
    /\ prog[pc].op = op

\* the next operation of the frame, or the frame's end
Move ==
    /\ pc' = IF pc = Len(prog) THEN 0 ELSE pc + 1
    /\ UNCHANGED <<variant, lastOp, changed, pushed, fn, arg, out, prog>>

Advance ==
    /\ Move
    /\ UNCHANGED frameVars

\* requestAnimationFrame calls render: a new frame starts
Render ==
    /\ pc = 0
    /\ stk.thrown = "none"
    /\ arg' \in FrameInputs(variant)
    /\ prog' = render(variant, arg'.x, arg'.y, arg'.branch)
    /\ pc' = 1
    /\ stk' = gc([stk EXCEPT !.regs = <<>>])
    /\ calls' = <<>>
    /\ ret' = NoReturn
    /\ log' = <<>>
    /\ UNCHANGED <<variant, lastOp, changed, pushed, fn, out, stkTop, warned, frameVars>>

StepPush ==
    /\ At("push")
    /\ stk' = push(stk)
    /\ Advance
    /\ UNCHANGED <<calls, ret, log, stkTop, warned>>

StepPop ==
    /\ At("pop")
    /\ stk' = pop(stk)
    /\ Advance
    /\ UNCHANGED <<calls, ret, log, stkTop, warned>>

StepLoadIdentity ==
    /\ At("loadIdentity")
    /\ stk' = loadIdentity(stk)
    /\ Advance
    /\ UNCHANGED <<calls, ret, log, stkTop, warned>>

StepApply ==
    /\ At("apply")
    /\ stk' = applyOp(stk, prog[pc].x)
    /\ Advance
    /\ UNCHANGED <<calls, ret, log, stkTop, warned>>

StepDraw ==
    /\ At("draw")
    /\ log' = Append(log, [name |-> prog[pc].name, val |-> CurVal(stk)])
    /\ Advance
    /\ UNCHANGED <<stk, calls, ret, stkTop, warned>>

StepCapture ==
    /\ At("capture")
    /\ stk' = capture(stk)
    /\ Advance
    /\ UNCHANGED <<calls, ret, log, stkTop, warned>>

StepEnter ==
    /\ At("enter")
    /\ calls' = Append(calls, [name |-> prog[pc].name,
                               depth |-> Len(stk.stack), val |-> CurVal(stk)])
    /\ Advance
    /\ UNCHANGED <<stk, ret, log, stkTop, warned>>

StepExit ==
    /\ At("exit")
    /\ ret' = [name |-> prog[pc].name,
               inDepth |-> Last(calls).depth, outDepth |-> Len(stk.stack),
               inVal |-> Last(calls).val, outVal |-> CurVal(stk)]
    /\ calls' = Front(calls)
    /\ Advance
    /\ UNCHANGED <<stk, log, stkTop, warned>>

\* const stkTop = stk.stack.length
StepStkTop ==
    /\ At("stkTop")
    /\ stkTop' = Len(stk.stack)
    /\ Advance
    /\ UNCHANGED <<stk, calls, ret, log, warned>>

\* if (stk.stack.length !== stkTop) console.warn(...)
StepLeakCheck ==
    /\ At("leakcheck")
    /\ warned' = (warned \/ Len(stk.stack) # stkTop)
    /\ Advance
    /\ UNCHANGED <<stk, calls, ret, log, stkTop>>

NextDraw ==
    \/ Render
    \/ StepPush
    \/ StepPop
    \/ StepLoadIdentity
    \/ StepApply
    \/ StepDraw
    \/ StepCapture
    \/ StepEnter
    \/ StepExit
    \/ StepStkTop
    \/ StepLeakCheck

SpecDraw == InitDraw /\ [][NextDraw]_vars

----------------------------------------------------------------------------
(* Claims about the drawers *)

\* C4: every body-part drawing routine (drawBody/body, drawHead/head,
\* drawArm/arm on either side, the right arm with hand and sword included,
\* drawLeg/leg, drawCharacter/character) and drawBarbell returns with the
\* stack depth and the current transform it was entered with, whatever the
\* joint angles; each part called by the character routine therefore starts
\* from the character's own frame, and the stack-leak warning of
\* drawBarbell is never emitted.
C4_DrawersRestore ==
    /\ ret.outDepth = ret.inDepth
    /\ ret.outVal = ret.inVal
    /\ \A i \in 2..Len(calls) :
         /\ calls[i].val = calls[i - 1].val
         /\ calls[i].depth = calls[i - 1].depth + 1
    /\ ~warned
    /\ stk.thrown = "none"

\* the fencing right arm has just returned, hand and sword drawn inside it
C4_Witness ==
    /\ variant = "fencing"
    /\ ret.name = <<"drawArm", "right">>
    /\ Ev(arg.x) = F(1)
    /\ ret.inDepth = 1
    /\ Len(stk.stack) = 1
    /\ \E i \in DOMAIN log :
         /\ log[i].name = <<"sword", "right">>
         /\ log[i].val # ret.outVal
         /\ Len(log[i].val) > Len(ret.outVal)

Hands == SelectSeq(log, LAMBDA e : e.name[1] = "hand")

\* C5: in the lifting variant arm() captures the hand transform as a clone
\* while the hand's pushed scope is still open, not the live current-matrix
\* object; the two matrices that character() returns and render() passes to
\* drawBarbell equal the transforms the two hands were drawn with, although
\* the stack is popped and the current matrix is changed (other arm, both
\* legs) between capture and use.
C5_HandSnapshot ==
    variant = "lifting" =>
        /\ (pc > 0 /\ prog[pc].op = "capture") =>
             /\ Last(log).name[1] = "hand"
             /\ CurVal(stk) = Last(log).val
             /\ Len(stk.stack) = Last(calls).depth + 2
        /\ Len(stk.regs) <= Len(Hands)
        /\ \A i \in DOMAIN stk.regs :
             /\ Hands[i].name[2] = (IF i = 1 THEN "left" ELSE "right")
             /\ Val(stk, stk.regs[i]) = Hands[i].val
             /\ stk.regs[i] # stk.current
             /\ stk.regs[i] \notin Range(stk.stack)
        /\ (calls # <<>> /\ Last(calls).name[1] = "drawBarbell") => Len(stk.regs) = 2

\* drawBarbell is entered: both hands captured, the stack back at depth 0,
\* both legs drawn since, the current transform no longer a hand's
C5_Witness ==
    /\ variant = "lifting"
    /\ calls # <<>>
    /\ Last(calls).name[1] = "drawBarbell"
    /\ Ev(arg.x) = F(1)
    /\ Len(stk.regs) = 2
    /\ Len(stk.stack) = 0
    /\ Last(log).name = <<"lowerLeg", "right">>
    /\ Val(stk, stk.regs[1]) # CurVal(stk)
    /\ Val(stk, stk.regs[2]) # CurVal(stk)
    /\ Val(stk, stk.regs[1]) # Val(stk, stk.regs[2])

----------------------------------------------------------------------------
(* Claims about the running frame's leg rotations (SpecFn) *)

\* the rotations in force at the draw call `name` of the routine `code`:
\* those applied before it in a scope that is still open at the call
Turns(code, name) ==
    LET n == CHOOSE k \in DOMAIN code : code[k].op = "draw" /\ code[k].name = name
        depth == [k \in 1..n |->
                    Cardinality({j \in 1..k : code[j].op = "push"})
                    - Cardinality({j \in 1..k : code[j].op = "pop"})]
        open == {j \in 1..n : /\ code[j].op = "apply"
                              /\ code[j].x.k = "R"
                              /\ \A k \in j..n : depth[k] >= depth[j]}
    IN  [m \in 1..Cardinality(open) |->
           code[CHOOSE j \in open : Cardinality({i \in open : i <= j}) = m].x]

\* the rotations the running frame with the sines of arg applies on the way
\* to a lower leg
LegTurns(side) == Turns(render_running(arg.x, arg.y), <<"lowerLeg", side>>)

\* C22: in the running variant the rotations on the way to a lower leg are
\* the root lean of -45 degrees, the hip angle and the knee angle, all about
\* Z; whenever the leg is in its forward phase the three angles sum to
\* exactly -90 degrees, and whenever it is trailing the knee angle is 0.
C22_LowerLegLevel ==
    fn = "gait"
    => \A side \in {"left", "right"} :
         LET turns == LegTurns(side)
             phase == IF side = "left" THEN out.leftLegPhase ELSE out.rightLegPhase
             hip == IF side = "left" THEN out.leftHipAngle ELSE out.rightHipAngle
             knee == IF side = "left" THEN out.leftKneeAngle ELSE out.rightKneeAngle
         IN  /\ Len(turns) = 3
             /\ \A j \in 1..3 : turns[j].v = Z_AXIS
             /\ Ev(turns[1].a) = Ev(deg(-45))
             /\ Ev(turns[2].a) = hip
             /\ Ev(turns[3].a) = knee
             /\ FLt(F(0), phase)
                => FAdd(FAdd(Ev(turns[1].a), hip), knee) = Ev(Neg(Div(PI, Num(2))))
             /\ FLe(phase, F(0)) => knee = F(0)

----------------------------------------------------------------------------
(* Primitive geometry: the generators of the vertex, normal and index      *)
(* arrays.  A coordinate is the expression the source computes it with;    *)
(* Math.sin, Math.cos, Math.sqrt and Math.hypot are kept as terms.  The    *)
(* arrays are filled in the order of the source's loops and pushes.        *)

Sin(a) == [op |-> "sin", a |-> a]
Cos(a) == [op |-> "cos", a |-> a]
Sqrt(a) == [op |-> "sqrt", a |-> a]

\* for (let i = lo; i <= hi; i++) { ... }, pushes(i) the elements pushed by
\* iteration i
For(lo, hi, pushes(_)) ==
    LET loop[i \in lo..(hi + 1)] == IF i > hi THEN <<>> ELSE pushes(i) \o loop[i + 1]
    IN  loop[lo]

\* new Float32Array(a): every element is rounded to single precision
Float32Array(a) == [i \in DOMAIN a |-> Fround(a[i])]

\* new Uint16Array(a): every element is taken modulo 2^16
Uint16Array(a) == [i \in DOMAIN a |-> a[i] % 65536]

\* the two triangles of the quad whose corners are first and second
Quad(first, second) == <<first, second, first + 1, second, second + 1, first + 1>>

(* fencing (fencing.js lines 94-347) and running (part_001 lines 94-347) *)

\* the vertex loop stopping one latitude row early
createSphere_short(radius, latBands, longBands) ==
    LET dir(lat, lon) ==
            LET theta == Div(Mul(Num(lat), PI), Num(latBands))
                phi == Div(Mul(Mul(Num(lon), Num(2)), PI), Num(longBands))
            IN  <<Mul(Cos(phi), Sin(theta)), Cos(theta), Mul(Sin(phi), Sin(theta))>>
        vertices == For(0, latBands - 1, LAMBDA lat : For(0, longBands, LAMBDA lon :
                        [k \in 1..3 |-> Mul(radius, dir(lat, lon)[k])]))
        normals == For(0, latBands - 1, LAMBDA lat : For(0, longBands, LAMBDA lon : dir(lat, lon)))
        indices == For(0, latBands - 1, LAMBDA lat : For(0, longBands - 1, LAMBDA lon :
                        LET first == lat * (longBands + 1) + lon
                        IN  Quad(first, first + longBands + 1)))
    IN  [vertices |-> Float32Array(vertices),
         normals |-> Float32Array(normals),
         indices |-> Uint16Array(indices)]

createSphere(radius, latBands, longBands) ==
    LET dir(lat, lon) ==
            LET theta == Div(Mul(Num(lat), PI), Num(latBands))
                phi == Div(Mul(Mul(Num(lon), Num(2)), PI), Num(longBands))
            IN  <<Mul(Cos(phi), Sin(theta)), Cos(theta), Mul(Sin(phi), Sin(theta))>>
        vertices == For(0, latBands, LAMBDA lat : For(0, longBands, LAMBDA lon :
                        [k \in 1..3 |-> Mul(radius, dir(lat, lon)[k])]))
        normals == For(0, latBands, LAMBDA lat : For(0, longBands, LAMBDA lon : dir(lat, lon)))
        indices == For(0, latBands - 1, LAMBDA lat : For(0, longBands - 1, LAMBDA lon :
                        LET first == lat * (longBands + 1) + lon
                        IN  Quad(first, first + longBands + 1)))
    IN  [vertices |-> Float32Array(vertices),
         normals |-> Float32Array(normals),
         indices |-> Uint16Array(indices)]

\* one end cap: the centre, then the rim, a triangle from the second rim
\* vertex on; flip is the bottom cap's winding
capVertices(radius, y, radialSegments) ==
    <<Num(0), y, Num(0)>>
    \o For(0, radialSegments, LAMBDA i :
           LET theta == Div(Mul(Num(i), Mul(PI, Num(2))), Num(radialSegments))
           IN  <<Mul(radius, Sin(theta)), y, Mul(radius, Cos(theta))>>)

capNormals(ny, radialSegments) ==
    <<Num(0), ny, Num(0)>> \o For(0, radialSegments, LAMBDA i : <<Num(0), ny, Num(0)>>)

capIndices(base, radialSegments, flip) ==
    For(1, radialSegments, LAMBDA i :
        IF flip THEN <<base, base + i + 1, base + i>> ELSE <<base, base + i, base + i + 1>>)

\* openEnded_ is "true", "false" or "undefined" (the argument left out)
createCylinder(radiusTop, radiusBottom, height, radialSegments, heightSegments, openEnded_) ==
    LET openEnded == IF openEnded_ = "undefined" THEN "false" ELSE openEnded_
        thetaLength == Mul(PI, Num(2))
        halfHeight == Div(height, Num(2))
        side(x) == LET theta == Mul(Div(Num(x), Num(radialSegments)), thetaLength)
                   IN  [sinTheta |-> Sin(theta), cosTheta |-> Cos(theta)]
        vertices == For(0, heightSegments, LAMBDA y :
                        LET v == Div(Num(y), Num(heightSegments))
                            radius == Add(Mul(v, Sub(radiusBottom, radiusTop)), radiusTop)
                            yPos == Sub(halfHeight, Mul(v, height))
                        IN  For(0, radialSegments, LAMBDA x :
                                <<Mul(radius, side(x).sinTheta), yPos, Mul(radius, side(x).cosTheta)>>))
        normals == For(0, heightSegments, LAMBDA y : For(0, radialSegments, LAMBDA x :
                        LET normalX == side(x).sinTheta
                            normalY == Div(Sub(radiusBottom, radiusTop), height)
                            normalZ == side(x).cosTheta
                            length == Sqrt(Add(Add(Mul(normalX, normalX), Mul(normalY, normalY)),
                                               Mul(normalZ, normalZ)))
                        IN  <<Div(normalX, length), Div(normalY, length), Div(normalZ, length)>>))
        indices == For(0, heightSegments - 1, LAMBDA y : For(0, radialSegments - 1, LAMBDA x :
                        LET vertex1 == y * (radialSegments + 1) + x
                        IN  Quad(vertex1, vertex1 + radialSegments + 1)))
        topCapBaseIndex == Len(vertices) \div 3
        topVertices == vertices \o capVertices(radiusTop, halfHeight, radialSegments)
        bottomCapBaseIndex == Len(topVertices) \div 3
    IN  IF openEnded = "false"
        THEN [vertices |-> Float32Array(topVertices
                              \o capVertices(radiusBottom, Neg(halfHeight), radialSegments)),
              normals |-> Float32Array(normals \o capNormals(Num(1), radialSegments)
                                               \o capNormals(Num(-1), radialSegments)),
              indices |-> Uint16Array(indices
                              \o capIndices(topCapBaseIndex, radialSegments, FALSE)
                              \o capIndices(bottomCapBaseIndex, radialSegments, TRUE))]
        ELSE [vertices |-> Float32Array(vertices),
              normals |-> Float32Array(normals),
              indices |-> Uint16Array(indices)]

\* +-0.5 for every sign of s, 0 / +-1.0 for every entry of s
Halves(s) == [i \in DOMAIN s |-> Dec(5 * s[i], 10)]
Units(s) == [i \in DOMAIN s |-> Num(s[i])]
Times4(n) == n \o n \o n \o n

createCube ==
    [vertices |-> Float32Array(Halves(
         <<-1, -1, 1,   1, -1, 1,   1, 1, 1,   -1, 1, 1,
           -1, -1, -1,  -1, 1, -1,  1, 1, -1,  1, -1, -1,
           -1, 1, -1,   -1, 1, 1,   1, 1, 1,   1, 1, -1,
           -1, -1, -1,  1, -1, -1,  1, -1, 1,  -1, -1, 1,
           1, -1, -1,   1, 1, -1,   1, 1, 1,   1, -1, 1,
           -1, -1, -1,  -1, -1, 1,  -1, 1, 1,  -1, 1, -1>>)),
     normals |-> Float32Array(Units(
         Times4(<<0, 0, 1>>) \o Times4(<<0, 0, -1>>) \o Times4(<<0, 1, 0>>)
         \o Times4(<<0, -1, 0>>) \o Times4(<<1, 0, 0>>) \o Times4(<<-1, 0, 0>>))),
     indices |-> Uint16Array(
         <<0, 1, 2, 0, 2, 3,        4, 5, 6, 4, 6, 7,
           8, 9, 10, 8, 10, 11,     12, 13, 14, 12, 14, 15,
           16, 17, 18, 16, 18, 19,  20, 21, 22, 20, 22, 23>>)]

(* spike (fencing.js lines 982-1079) and lifting (part_000 lines 94-271) *)

sphere(r, lat, lon) ==
    LET dir(a, b) ==
            LET th == Div(Mul(Num(a), PI), Num(lat))
                ph == Div(Mul(Mul(Num(b), Num(2)), PI), Num(lon))
            IN  <<Mul(Cos(ph), Sin(th)), Cos(th), Mul(Sin(ph), Sin(th))>>
        v == For(0, lat, LAMBDA a : For(0, lon, LAMBDA b :
                 [k \in 1..3 |-> Mul(r, dir(a, b)[k])]))
        n == For(0, lat, LAMBDA a : For(0, lon, LAMBDA b : dir(a, b)))
        i == For(0, lat - 1, LAMBDA a : For(0, lon - 1, LAMBDA b :
                 LET first == a * (lon + 1) + b
                 IN  Quad(first, first + lon + 1)))
    IN  [v |-> Float32Array(v), n |-> Float32Array(n), idx |-> Uint16Array(i)]

\* open is not read
cylinder(rt, rb, h, radSeg, hSeg, open) ==
    LET hh == Div(h, Num(2))
        tl == Mul(Num(2), PI)
        side(x) == LET th == Mul(Div(Num(x), Num(radSeg)), tl)
                   IN  [st |-> Sin(th), ct |-> Cos(th)]
        v == For(0, hSeg, LAMBDA y :
                 LET vy == Div(Num(y), Num(hSeg))
                     r == Add(rt, Mul(Sub(rb, rt), vy))
                     yPos == Sub(hh, Mul(vy, h))
                 IN  For(0, radSeg, LAMBDA x :
                         <<Mul(r, side(x).st), yPos, Mul(r, side(x).ct)>>))
        n == For(0, hSeg, LAMBDA y : For(0, radSeg, LAMBDA x :
                 LET nx == side(x).st
                     ny == Div(Sub(rb, rt), h)
                     nz == side(x).ct
                     l == Hypot(nx, ny, nz)
                 IN  <<Div(nx, l), Div(ny, l), Div(nz, l)>>))
        idx == For(0, hSeg - 1, LAMBDA y : For(0, radSeg - 1, LAMBDA x :
                   LET a == y * (radSeg + 1) + x
                   IN  Quad(a, a + radSeg + 1)))
    IN  [v |-> Float32Array(v), n |-> Float32Array(n), idx |-> Uint16Array(idx)]

cube ==
    LET p == Halves(<<-1, -1, 1,   1, -1, 1,   1, 1, 1,   -1, 1, 1,
                      -1, -1, -1,  -1, 1, -1,  1, 1, -1,  1, -1, -1>>)
        faces == <<<<0, 1, 2, 3>>, <<4, 5, 6, 7>>, <<3, 2, 6, 5>>,
                   <<0, 3, 5, 4>>, <<1, 7, 6, 2>>, <<0, 4, 7, 1>>>>
        \* the arrays after faces 0 .. k-1
        done[k \in 0..Len(faces)] ==
            IF k = 0 THEN [v |-> <<>>, n |-> <<>>, idx |-> <<>>]
            ELSE LET fi == k - 1
                     f == faces[k]
                     nx == [j \in 1..3 |->
                              IF j - 1 = fi \div 2
                              THEN (IF fi % 2 # 0 THEN Num(-1) ELSE Num(1)) ELSE Num(0)]
                     v == done[k - 1].v
                            \o For(1, 4, LAMBDA c : SubSeq(p, f[c] * 3 + 1, f[c] * 3 + 3))
                     o == Len(v) \div 3 - 4
                 IN  [v |-> v,
                      n |-> done[k - 1].n \o Times4(nx),
                      idx |-> done[k - 1].idx \o <<o, o + 1, o + 2, o, o + 2, o + 3>>]
        all == done[Len(faces)]
    IN  [v |-> Float32Array(all.v), n |-> Float32Array(all.n), idx |-> Uint16Array(all.idx)]

----------------------------------------------------------------------------
(* The generators called with segment counts from bounded ranges (SpecGeo) *)

MaxBands == 3
MaxSegments == 3

GeoInputs ==
    {[for |-> "sphere", lat |-> a, lon |-> b] : a \in 1..MaxBands, b \in 1..MaxBands}
    \cup {[for |-> "cylinder", radSeg |-> a, hSeg |-> b, open |-> o] :
            a \in 1..MaxSegments, b \in 1..MaxSegments, o \in {"true", "false", "undefined"}}
    \cup {[for |-> "cube"]}

\* fencing.js lines 350-352 / part_000 lines 300-301: the radii and the
\* height of the calls
Sphere(v, lat, lon) ==
    IF v \in {"fencing", "running"}
    THEN createSphere(Dec(5, 10), lat, lon)
    ELSE sphere(Dec(5, 10), lat, lon)

CylinderOf(v, radSeg, hSeg, open) ==
    IF v \in {"fencing", "running"}
    THEN createCylinder(Dec(5, 10), Dec(5, 10), Num(1), radSeg, hSeg, open)
    ELSE cylinder(Dec(5, 10), Dec(5, 10), Num(1), radSeg, hSeg, open)

Cube(v) == IF v \in {"fencing", "running"} THEN createCube ELSE cube

InitGeo ==
    /\ variant \in StackVariants
    /\ StackIdle
    /\ DrawIdle
    /\ FrameIdle
    /\ fn = "none"
    /\ arg \in GeoInputs
    /\ out = <<>>

Generate(f, geometry) ==
    /\ fn = "none"
    /\ arg.for = f
    /\ fn' = f
    /\ out' = geometry
    /\ UNCHANGED <<variant, arg, stackVars, drawVars, frameVars>>

GenSphere == Generate("sphere", Sphere(variant, arg.lat, arg.lon))

GenCylinder == Generate("cylinder", CylinderOf(variant, arg.radSeg, arg.hSeg, arg.open))

GenCube == Generate("cube", Cube(variant))

NextGeo == GenSphere \/ GenCylinder \/ GenCube

SpecGeo == InitGeo /\ [][NextGeo]_vars

----------------------------------------------------------------------------
(* Claims about the primitive geometry *)

\* the arrays of a generated shape under one set of names
Geometry(o) ==
    IF "vertices" \in DOMAIN o THEN o
    ELSE [vertices |-> o.v, normals |-> o.n, indices |-> o.idx]

Count(array) == Len(array) \div 3

\* the Number stored in an array element
Stored(x) == Ev(x)

\* C11: for all latBands >= 1 and lonBands >= 1 the sphere generators
\* (createSphere, sphere) emit exactly (latBands+1)*(lonBands+1) vertices,
\* as many normals, and latBands*lonBands*6 index entries, and every index
\* entry is smaller than the number of vertices.
C11_SphereCounts ==
    fn = "sphere" =>
        LET g == Geometry(out)
        IN  /\ Len(g.vertices) = 3 * (arg.lat + 1) * (arg.lon + 1)
            /\ Len(g.normals) = 3 * (arg.lat + 1) * (arg.lon + 1)
            /\ Len(g.indices) = arg.lat * arg.lon * 6
            /\ \A i \in DOMAIN g.indices :
                 g.indices[i] >= 0 /\ g.indices[i] < Count(g.vertices)

\* a sphere of several bands each way whose last quad reaches the last vertex
C11_Witness ==
    /\ fn = "sphere"
    /\ arg.lat >= 2
    /\ arg.lon >= 2
    /\ LET g == Geometry(out)
       IN  /\ Count(g.vertices) = (arg.lat + 1) * (arg.lon + 1)
           /\ \E i \in DOMAIN g.indices : g.indices[i] = Count(g.vertices) - 1
           /\ \E i \in DOMAIN g.indices : g.indices[i] = 0

\* the arrays the same call returns with openEnded true
OpenEnded == Geometry(CylinderOf(variant, arg.radSeg, arg.hSeg, "true"))

\* the normal of vertex j (from 0) is (0, ny, 0)
NormalIsY(g, j, ny) ==
    /\ Stored(g.normals[3 * j + 1]) = F(0)
    /\ Stored(g.normals[3 * j + 2]) = F(ny)
    /\ Stored(g.normals[3 * j + 3]) = F(0)

\* C12: for every cylinder generator (createCylinder and cylinder), a call
\* with openEnded false or omitted produces both end caps: exactly
\* 2*(radialSegments+2) more vertices and 2*radialSegments*3 more index
\* entries than the same call with openEnded true, with cap normals (0,1,0)
\* on the top cap and (0,-1,0) on the bottom cap, and every cap index
\* referring to an existing vertex.
C12_CylinderCaps ==
    (fn = "cylinder" /\ arg.open \in {"false", "undefined"}) =>
        LET g == Geometry(out)
            o == OpenEnded
            n == arg.radSeg
            base == Count(o.vertices)
        IN  /\ Count(g.vertices) = base + 2 * (n + 2)
            /\ Count(g.normals) = Count(g.vertices)
            /\ Len(g.indices) = Len(o.indices) + 2 * n * 3
            /\ \A j \in base..(base + n + 1) : NormalIsY(g, j, 1)
            /\ \A j \in (base + n + 2)..(base + 2 * n + 3) : NormalIsY(g, j, -1)
            /\ \A i \in (Len(o.indices) + 1)..Len(g.indices) :
                 g.indices[i] >= base /\ g.indices[i] < Count(g.vertices)

\* coordinate k of vertex j (from 0), and of its normal
Coord(g, j, k) == Stored(g.vertices[3 * j + k])
NormalCoord(g, j, k) == Stored(g.normals[3 * j + k])

\* the axes on which the four vertices of face f (from 0) agree
SharedAxes(g, f) ==
    {k \in 1..3 : \A c \in 1..3 : Coord(g, 4 * f + c, k) = Coord(g, 4 * f, k)}

\* C13: both cube generators (createCube and cube) return 24 vertices, 24
\* normals and 36 index entries (12 triangles), four unshared vertices per
\* face, and every vertex carries the normal of the face it lies on: the
\* unit axis vector whose axis is the one coordinate shared by the face's
\* four vertices and whose sign is the sign of that coordinate.
C13_CubeFaceNormals ==
    fn = "cube" =>
        LET g == Geometry(out)
        IN  /\ Count(g.vertices) = 24 /\ Len(g.vertices) = 72
            /\ Len(g.normals) = 72
            /\ Len(g.indices) = 36
            /\ \A f \in 0..5 :
                 /\ \A i \in (6 * f + 1)..(6 * f + 6) :
                      g.indices[i] \in (4 * f)..(4 * f + 3)
                 /\ Cardinality(SharedAxes(g, f)) = 1
                 /\ \A c \in 0..3 : \A k \in 1..3 :
                      NormalCoord(g, 4 * f + c, k) =
                          IF k \in SharedAxes(g, f)
                          THEN (IF FLt(F(0), Coord(g, 4 * f + c, k)) THEN F(1) ELSE F(-1))
                          ELSE F(0)

----------------------------------------------------------------------------
(* The barbell between the two hands (lifting): drawBarbell on hand        *)
(* positions.  The vec3 functions are gl-matrix's; a vec3 is a             *)
(* Float32Array, so every component written is rounded to single           *)
(* precision, and vec3.length is Math.hypot.                               *)

vec3_fromValues(x, y, z) == <<Fround(x), Fround(y), Fround(z)>>

vec3_add(a, b) == [i \in 1..3 |-> Fround(Add(a[i], b[i]))]

\* the difference taken the other way round
vec3_subtract_swapped(a, b) == [i \in 1..3 |-> Fround(Sub(b[i], a[i]))]

vec3_subtract(a, b) == [i \in 1..3 |-> Fround(Sub(a[i], b[i]))]

vec3_scale(a, b) == [i \in 1..3 |-> Fround(Mul(a[i], b))]

vec3_length(a) == Hypot(a[1], a[2], a[3])

vec3_dot(a, b) == Add(Add(Mul(a[1], b[1]), Mul(a[2], b[2])), Mul(a[3], b[3]))

vec3_cross(a, b) ==
    <<Fround(Sub(Mul(a[2], b[3]), Mul(a[3], b[2]))),
      Fround(Sub(Mul(a[3], b[1]), Mul(a[1], b[3]))),
      Fround(Sub(Mul(a[1], b[2]), Mul(a[2], b[1])))>>

\* part_000 lines 455-474: the constants drawBarbell computes from the two
\* hand positions, as expressions
barbellFrame(handL, handR) ==
    LET pL == vec3_fromValues(handL[1], handL[2], handL[3])
        pR == vec3_fromValues(handR[1], handR[2], handR[3])
        d == vec3_subtract(pR, pL)
        len == vec3_length(d)
        dir == vec3_scale(d, Div(Num(1), len))
        mid == vec3_scale(vec3_add(pL, pR), Dec(5, 10))
        up == Y_AXIS
        axis == vec3_cross(up, dir)
    IN  [len |-> len, dir1 |-> dir[1], dir2 |-> dir[2], dir3 |-> dir[3],
         mid1 |-> mid[1], mid2 |-> mid[2], mid3 |-> mid[3],
         axis1 |-> axis[1], axis2 |-> axis[2], axis3 |-> axis[3],
         axisLen |-> vec3_length(axis), dot |-> vec3_dot(up, dir)]

\* the vectors among the constants
Dir(f) == <<f.dir1, f.dir2, f.dir3>>
Mid(f) == <<f.mid1, f.mid2, f.mid3>>
Axis(f) == <<f.axis1, f.axis2, f.axis3>>

\* the literal 1e-5
Epsilon == FDiv(F(1), F(100000))

\* Math.acos(Math.min(Math.max(vec3.dot(up, dir), -1), 1))
barbellAngle(dot) == Acos(Min(Max(dot, Num(-1)), Num(1)))

\* part_000 lines 482-491: the bar's orientation; vec3.scale normalises
\* axis in place, so the plates see the normalised vector
orientBar(f) ==
    IF FLt(Epsilon, f.axisLen)
    THEN LET axis == vec3_scale(Axis(f), Div(Num(1), f.axisLen))
         IN  [axis |-> axis, code |-> iRotate(barbellAngle(f.dot), axis)]
    ELSE IF FLt(f.dot, Zero)
    THEN [axis |-> Axis(f), code |-> iRotate(PI, X_AXIS)]
    ELSE [axis |-> Axis(f), code |-> <<>>]

\* a plate oriented without the branch for opposite directions
orientPlate_noflip(f, axis) ==
    IF FLt(Epsilon, f.axisLen)
    THEN iRotate(barbellAngle(f.dot), axis)
    ELSE <<>>

\* part_000 lines 506-513: a plate's orientation
orientPlate(f, axis) ==
    IF FLt(Epsilon, f.axisLen)
    THEN iRotate(barbellAngle(f.dot), axis)
    ELSE IF FLt(f.dot, Zero)
    THEN iRotate(PI, X_AXIS)
    ELSE <<>>

\* part_000 lines 476-523, f the constants of barbellFrame
drawBarbellAt(f) ==
    LET bar == orientBar(f)
        plate == orientPlate(f, bar.axis)
        plateOffset == Sub(f.len, Dec(5, 100))
    IN  Call("drawBarbell", "",
             <<Ins("stkTop", <<>>, <<"", "">>)>>
             \o iPush \o iTranslate(Mid(f)) \o bar.code
                      \o iScale(<<Num(1), f.len, Num(1)>>)
                      \o iDraw("bar", "")
                      \o iPop
             \o For(1, 2, LAMBDA k :
                    LET sign == IF k = 1 THEN Num(1) ELSE Num(-1)
                    IN  iPush \o iTranslate(Mid(f)) \o plate
                              \o iTranslate(<<Num(0), Mul(sign, plateOffset), Num(0)>>)
                              \o iDraw("plate", <<"+", "-">>[k])
                              \o iPop)
             \o <<Ins("leakcheck", <<>>, <<"", "">>)>>)

\* the hand positions: the translation columns of the two hand matrices
HandCoordinates == {Num(-1), Num(0), Dec(1, 1000000), Num(1)}

LeftHands == {<<Num(-1), Num(1), Num(0)>>, <<Num(0), Num(0), Num(0)>>}

RightHands == {<<x, y, z>> : x \in HandCoordinates, y \in {Num(-1), Num(0), Num(1)},
                            z \in {Num(0), Num(1)}}

HandInputs ==
    {[for |-> "drawBarbell", L |-> l, R |-> r] : l \in LeftHands, r \in RightHands}

InitBarbell ==
    /\ variant = "lifting"
    /\ StackIdle
    /\ DrawIdle
    /\ FrameIdle
    /\ fn = "none"
    /\ arg \in HandInputs
    /\ out = <<>>

\* render calls drawBarbell(leftHandM, rightHandM)
DrawBarbell ==
    /\ fn = "none"
    /\ pc = 0
    /\ fn' = "drawBarbell"
    /\ out' = EvAll(barbellFrame(arg.L, arg.R))
    /\ prog' = drawBarbellAt(out')
    /\ pc' = 1
    /\ UNCHANGED <<variant, arg, stackVars, calls, ret, log, stkTop, warned, frameVars>>

NextBarbell ==
    \/ DrawBarbell
    \/ StepPush
    \/ StepPop
    \/ StepApply
    \/ StepDraw
    \/ StepEnter
    \/ StepExit
    \/ StepStkTop
    \/ StepLeakCheck

SpecBarbell == InitBarbell /\ [][NextBarbell]_vars

----------------------------------------------------------------------------
(* Claims about the barbell *)

Rotations(word) == SelectSeq(word, LAMBDA o : o.k = "R")

\* Math.PI / 2
Quarter == FDiv(PI, F(2))

\* a quarter turn about the unit vector k applied to v: k x v + k (k . v)
QuarterTurn(k, v) ==
    LET kv == FAdd(FAdd(FMul(k[1], v[1]), FMul(k[2], v[2])), FMul(k[3], v[3]))
    IN  <<FAdd(FSub(FMul(k[2], v[3]), FMul(k[3], v[2])), FMul(k[1], kv)),
          FAdd(FSub(FMul(k[3], v[1]), FMul(k[1], v[3])), FMul(k[2], kv)),
          FAdd(FSub(FMul(k[1], v[2]), FMul(k[2], v[1])), FMul(k[3], kv))>>

Drawn(part) == \E i \in DOMAIN log : log[i].name[1] = part

\* C14: with the left hand at (-1, 1, 0) and the right hand at (1, 1, 0)
\* drawBarbell computes mid = (0, 1, 0), length 2 and dir = (1, 0, 0), and
\* it draws the bar translated to mid, rotated by 90 degrees about the Z
\* axis in the sense that takes +Y to +X, and scaled by the length along Y.
C14_BarbellScenario ==
    (/\ fn = "drawBarbell"
     /\ arg.L = <<Num(-1), Num(1), Num(0)>>
     /\ arg.R = <<Num(1), Num(1), Num(0)>>)
    => /\ Mid(out) = <<F(0), F(1), F(0)>>
       /\ out.len = F(2)
       /\ Dir(out) = <<F(1), F(0), F(0)>>
       /\ \A i \in DOMAIN log :
            log[i].name[1] = "bar"
            => /\ Len(log[i].val) = 3
               /\ log[i].val[1] = T(Mid(out))
               /\ log[i].val[2].k = "R"
               /\ log[i].val[2].a = Quarter
               /\ log[i].val[2].v \in {<<F(0), F(0), F(1)>>, <<F(0), F(0), F(-1)>>}
               /\ QuarterTurn(log[i].val[2].v, <<F(0), F(1), F(0)>>) = <<F(1), F(0), F(0)>>
               /\ log[i].val[3] = S(<<F(1), F(2), F(1)>>)

C14_Witness ==
    /\ fn = "drawBarbell"
    /\ arg.L = <<Num(-1), Num(1), Num(0)>>
    /\ arg.R = <<Num(1), Num(1), Num(0)>>
    /\ Drawn("bar")
    /\ pc = 0

\* C15: the bar and both plates are oriented alike: when the norm of
\* cross(up, dir) exceeds 1e-5 by the rotation of acos(clamp(dot(up, dir),
\* -1, 1)) about the normalised cross axis; when the norm is at most 1e-5
\* and the dot product is negative by a rotation of pi about X; when the
\* norm is at most 1e-5 and the dot product is not negative by no
\* rotation; and no rotation applied has a NaN angle or a NaN axis, also
\* when the hands coincide.
C15_BarbellOrientation ==
    fn = "drawBarbell"
    => \A i \in DOMAIN log :
         LET rot == Rotations(log[i].val)
         IN  /\ FLt(Epsilon, out.axisLen)
                => rot = <<R(FAcos(FMin(FMax(out.dot, F(-1)), F(1))),
                             [k \in 1..3 |->
                                Float32(FMul(Axis(out)[k], FDiv(F(1), out.axisLen)))])>>
             /\ (FLe(out.axisLen, Epsilon) /\ FLt(out.dot, F(0)))
                => rot = <<R(PI, <<F(1), F(0), F(0)>>)>>
             /\ (FLe(out.axisLen, Epsilon) /\ FLe(F(0), out.dot))
                => rot = <<>>
             /\ \A j \in DOMAIN rot : NaN \notin ({rot[j].a} \cup Range(rot[j].v))

\* the hands coincide: dir is NaN, and the bar and both plates are drawn
C15_Witness ==
    /\ fn = "drawBarbell"
    /\ arg.L = arg.R
    /\ NaN \in Range(Dir(out))
    /\ out.axisLen = NaN
    /\ Len(log) = 3
    /\ pc = 0

\* part_000 line 302: the mesh drawBar draws
barVAO == cylinder(Dec(5, 100), Dec(5, 100), Num(2), 32, 1, "undefined")

\* the heights of the vertices of a mesh
MeshY(g) == {Ev(g.v[3 * j + 2]) : j \in 0..((Len(g.v) \div 3) - 1)}

\* a half turn about the unit vector k applied to v: 2 k (k . v) - v
HalfTurn(k, v) ==
    LET kv == FAdd(FAdd(FMul(k[1], v[1]), FMul(k[2], v[2])), FMul(k[3], v[3]))
    IN  [j \in 1..3 |-> FSub(FMul(F(2), FMul(k[j], kv)), v[j])]

\* the image of the point p under the transform word; a rotation is a
\* quarter turn or a half turn
RECURSIVE Image(_, _)
Image(word, p) ==
    IF word = <<>> THEN p
    ELSE LET q == Image(Tail(word), p)
             o == Head(word)
         IN  CASE o.k = "T" -> [j \in 1..3 |-> FAdd(q[j], o.v[j])]
               [] o.k = "S" -> [j \in 1..3 |-> FMul(q[j], o.v[j])]
               [] o.k = "R" -> IF o.a = Quarter THEN QuarterTurn(o.v, q)
                               ELSE HalfTurn(o.v, q)

\* the positions vec3.fromValues stores for a hand
Hand(h) == [j \in 1..3 |-> Float32(Ev(h[j]))]

\* the hands are at grid points and the direction between them is along a
\* coordinate axis
AxisAligned(f, handL, handR) ==
    /\ Range(Hand(handL)) \cup Range(Hand(handR)) \cup Range(Dir(f))
         \subseteq {F(0), F(1), F(-1)}
    /\ f.len # Zero

\* C21: the bar drawn by drawBarbell is centred on the midpoint of the hands
\* and its length along dir, the height of the bar mesh times the scale
\* applied along Y, is the distance between the hands; where the hands are
\* at grid points and the direction between them is along a coordinate axis
\* the two ends of the bar are the two hand positions.
C21_BarSpansHands ==
    fn = "drawBarbell"
    => \A i \in DOMAIN log :
         log[i].name[1] = "bar"
         => LET word == log[i].val
                ys == MeshY(barVAO)
                top == CHOOSE y \in ys : \A z \in ys : FLe(z, y)
                bottom == CHOOSE y \in ys : \A z \in ys : FLe(y, z)
            IN  /\ word[1] = T(Mid(out))
                /\ bottom = FNeg(top)
                /\ Last(word).k = "S"
                /\ FMul(FSub(top, bottom), Last(word).v[2]) = out.len
                /\ AxisAligned(out, arg.L, arg.R)
                   => {Image(word, <<F(0), y, F(0)>>) : y \in {top, bottom}}
                      = {Hand(arg.L), Hand(arg.R)}


----------------------------------------------------------------------------
(* Claims about the running frame's arms (SpecDraw) *)

\* the sine a side's arm is driven by: Math.sin(t) on the left,
\* Math.sin(t + Math.PI) on the right
ArmPhase(side) == Ev(IF side = "left" THEN arg.x ELSE arg.y)

\* the forward half of C25: a positive elbow angle of at most 90 degrees
ElbowForward(elbow) == FLt(F(0), elbow) /\ FLe(elbow, Ev(deg(90)))

\* the backward half: a negative elbow angle, not below -45 degrees
ElbowBackward(elbow) == FLt(elbow, F(0)) /\ FLe(Ev(deg(-45)), elbow)

\* C25: in the running variant the elbow rotation a lower arm is drawn
\* under is positive and at most +90 degrees when the arm is in its forward
\* phase (sine > 0), and negative, down to -45 degrees, when the arm is in
\* its backward phase (sine < 0).
C25_ElbowSign ==
    variant = "running"
    => \A i \in DOMAIN log :
         log[i].name[1] = "lowerArm"
         => LET elbow == Last(Rotations(log[i].val)).a
                sine == ArmPhase(log[i].name[2])
            IN  /\ FLt(F(0), sine) => ElbowForward(elbow)
                /\ FLt(sine, F(0)) => ElbowBackward(elbow)

----------------------------------------------------------------------------
(* The mouse handlers and the camera (SpecCamera) *)

\* fencing.js lines 412-416, part_000 lines 636-640, example.js lines 76-80
mousedown(c, e) ==
    [c EXCEPT !.isDragging = TRUE, !.mouseX = e.clientX, !.mouseY = e.clientY]

\* fencing.js lines 418-435 (part_001 the same), part_000 lines 641-651
mousemove(c, e) ==
    IF ~c.isDragging THEN c
    ELSE LET deltaX == Sub(Num(e.clientX), Num(c.mouseX))
             deltaY == Sub(Num(e.clientY), Num(c.mouseY))
             next == EvAll(
                 [cameraRotationY |-> Add(c.cameraRotationY, Mul(deltaX, Dec(1, 100))),
                  cameraRotationX |->
                      Max(Div(Neg(PI), Num(2)),
                          Min(Div(PI, Num(2)),
                              Add(c.cameraRotationX, Mul(deltaY, Dec(1, 100)))))])
         IN  [c EXCEPT !.cameraRotationY = next.cameraRotationY,
                       !.cameraRotationX = next.cameraRotationX,
                       !.mouseX = e.clientX, !.mouseY = e.clientY]

\* example.js lines 82-90: theta += dx * 0.5; phi += dy * 0.5
mousemove_example(c, e) ==
    IF ~c.isDragging THEN c
    ELSE LET dx == Sub(Num(e.clientX), Num(c.mouseX))
             dy == Sub(Num(e.clientY), Num(c.mouseY))
             next == EvAll([theta |-> Add(c.cameraRotationY, Mul(dx, Dec(5, 10))),
                            phi |-> Add(c.cameraRotationX, Mul(dy, Dec(5, 10)))])
         IN  [c EXCEPT !.cameraRotationY = next.theta,
                       !.cameraRotationX = next.phi,
                       !.mouseX = e.clientX, !.mouseY = e.clientY]

\* fencing.js lines 437-443, part_000 lines 652-653, example.js line 81
mouseup(c) == [c EXCEPT !.isDragging = FALSE]

\* MV.js radians(degrees)
radians(degrees) == Div(Mul(degrees, PI), Num(180))

\* the camera angles render turns the view by: mat4.rotateX(view, view,
\* cameraRotationX) and rotateY (fencing.js lines 856-857, part_000 lines
\* 727-728); radians(phi) and radians(theta) in example.js (lines 305-306)
viewAngles(v, c) ==
    IF v = "example"
    THEN [pitch |-> radians(c.cameraRotationX), yaw |-> radians(c.cameraRotationY)]
    ELSE [pitch |-> c.cameraRotationX, yaw |-> c.cameraRotationY]

\* the pointer positions of the events
MouseEvents ==
    {[clientX |-> p[1], clientY |-> p[2]] : p \in {<<0, 0>>, <<100, 50>>, <<0, 400>>}}

MaxMoves == 3

InitCamera ==
    /\ variant \in Variants
    /\ stk = IF variant = "example" THEN exampleStack ELSE MatrixStack
    /\ lastOp = "new"
    /\ changed = FALSE
    /\ pushed = <<>>
    /\ FnIdle
    /\ DrawIdle
    /\ FrameIdle

\* the canvas receives an event and its handler runs: only the camera
\* changes (the angles observed in the last frame are forgotten)
Handle(event, next, moves) ==
    /\ camera' = next
    /\ events' = events + moves
    /\ fn' = event
    /\ arg' = <<>>
    /\ out' = <<>>
    /\ UNCHANGED <<variant, stackVars, drawVars, startTime, rightArmAngle, direction, host>>

MouseDown == \E e \in MouseEvents : Handle("mousedown", mousedown(camera, e), 0)

MouseMove ==
    /\ events < MaxMoves
    /\ \E e \in MouseEvents :
         Handle("mousemove",
                IF variant = "example" THEN mousemove_example(camera, e)
                ELSE mousemove(camera, e),
                IF camera.isDragging THEN 1 ELSE 0)

MouseUp == Handle("mouseup", mouseup(camera), 0)

\* fencing.js lines 441-443, part_000 line 653; example.js listens to no
\* mouseleave, the event changes nothing there
MouseLeave ==
    Handle("mouseleave",
           IF variant \in StackVariants THEN mouseup(camera) ELSE camera, 0)

\* a frame reads the camera; render assigns none of the camera's variables
View ==
    /\ fn # "view"
    /\ fn' = "view"
    /\ arg' = camera
    /\ out' = EvAll(viewAngles(variant, camera))
    /\ UNCHANGED <<variant, stackVars, drawVars, frameVars>>

NextCamera == MouseDown \/ MouseMove \/ MouseUp \/ MouseLeave \/ View

SpecCamera == InitCamera /\ [][NextCamera]_vars

\* C16: in every variant, after any sequence of mouse down, move, up and
\* leave events, the camera pitch the next frame uses lies within
\* [-90, +90] degrees, that is within [-pi/2, pi/2].
C16_PitchClamped ==
    fn = "view" => (FLe(FNeg(Quarter), out.pitch) /\ FLe(out.pitch, Quarter))

\* the camera angles
YawPitch(c) == <<c.cameraRotationX, c.cameraRotationY>>

\* C28: in every variant mouse moves change yaw and pitch only while a
\* drag is active: mousedown starts a drag, mouseup and the pointer leaving
\* the canvas end it, nothing else starts or ends one; a move received
\* while no drag is active leaves yaw, pitch and the remembered pointer
\* position unchanged, and so does a move that follows a leave event.
C28_DragBookkeeping ==
    /\ [][fn' = "mousedown" => camera'.isDragging]_vars
    /\ [][fn' \in {"mouseup", "mouseleave"} => ~camera'.isDragging]_vars
    /\ [][fn' \in {"mousemove", "view"} => camera'.isDragging = camera.isDragging]_vars
    /\ [][fn' # "mousemove" => YawPitch(camera') = YawPitch(camera)]_vars
    /\ [][(fn' = "mousemove" /\ ~camera.isDragging) => camera' = camera]_vars
    /\ [][(fn = "mouseleave" /\ fn' = "mousemove") => camera' = camera]_vars

----------------------------------------------------------------------------
(* example.js: the figure tree and its traversal *)

\* MV.js mult(a, b): the product of two transforms is the word of a
\* followed by the word of b
mult(a, b) == a \o b

\* MV.js translate, rotateZ and scalem
mv_translate(x, y, z) == <<T(<<x, y, z>>)>>
mv_rotateZ(theta) == <<R(theta, Z_AXIS)>>
mv_scalem(x, y, z) == <<S(<<x, y, z>>)>>

torsoId == 0
headId == 1
leftUpperArmId == 2
leftLowerArmId == 3
rightUpperArmId == 4
rightLowerArmId == 5
leftUpperLegId == 6
leftLowerLegId == 7
rightUpperLegId == 8
rightLowerLegId == 9
swordId == 10
null == 99

createNode(transform, renderFunc, sibling, child) ==
    [transform |-> transform, render |-> renderFunc, sibling |-> sibling, child |-> child]

\* example.js lines 97-177: initNodes(id), the node it stores in figure[id]
initNodes(id) ==
    LET s == radians(Num(-90))
        offset == Dec(25, 100)
        rotationAboutTop ==
            mult(mv_translate(Num(0), offset, Num(0)),
                 mult(mv_rotateZ(s), mv_translate(Num(0), Neg(offset), Num(0))))
    IN  CASE id = torsoId -> createNode(Identity, "torso", null, headId)
          [] id = headId ->
               createNode(mv_translate(Num(0), Add(Div(Dec(6, 10), Num(2)), Div(Dec(2, 10), Num(2))), Num(0)),
                          "head", rightUpperArmId, null)
          [] id = rightUpperArmId ->
               createNode(mult(mv_translate(Dec(8, 10), Dec(2, 10), Num(0)), rotationAboutTop),
                          "rightUpperArm", leftUpperArmId, rightLowerArmId)
          [] id = rightLowerArmId ->
               createNode(mv_translate(Num(0), Num(-1), Num(0)), "rightLowerArm", null, swordId)
          [] id = swordId ->
               createNode(mv_translate(Num(0), Dec(-25, 100), Num(0)), "sword", null, null)
          [] id = leftUpperArmId ->
               createNode(mult(mv_translate(Dec(-8, 10), Dec(2, 10), Num(0)), rotationAboutTop),
                          "leftUpperArm", leftUpperLegId, leftLowerArmId)
          [] id = leftLowerArmId ->
               createNode(mv_translate(Num(0), Num(-1), Num(0)), "leftLowerArm", null, null)
          [] id = leftUpperLegId ->
               createNode(mv_translate(Dec(-2, 10), Dec(-6, 10), Num(0)),
                          "leftUpperLeg", rightUpperLegId, leftLowerLegId)
          [] id = leftLowerLegId ->
               createNode(mv_translate(Num(0), Dec(-6, 10), Num(0)), "leftLowerLeg", null, null)
          [] id = rightUpperLegId ->
               createNode(mv_translate(Dec(2, 10), Dec(-6, 10), Num(0)),
                          "rightUpperLeg", null, rightLowerLegId)
          [] id = rightLowerLegId ->
               createNode(mv_translate(Num(0), Dec(-6, 10), Num(0)), "rightLowerLeg", null, null)

numNodes == 11

\* for (let i = 0; i < numNodes; i++) initNodes(i)
figure == [id \in 0..(numNodes - 1) |-> initNodes(id)]

iArrayPush == <<Ins("array_push", <<>>, <<"", "">>)>>
iArrayPop == <<Ins("array_pop", <<>>, <<"", "">>)>>
iMult(word) == <<Ins("mult", word, <<"", "">>)>>
iMat4 == <<Ins("mat4", <<>>, <<"", "">>)>>

\* the name a part is drawn under: its segment and its side
PartName(renderFunc) ==
    CASE renderFunc = "torso" -> <<"body", "">>
      [] renderFunc = "head" -> <<"head", "">>
      [] renderFunc = "sword" -> <<"sword", "right">>
      [] renderFunc = "leftUpperArm" -> <<"upperArm", "left">>
      [] renderFunc = "leftLowerArm" -> <<"lowerArm", "left">>
      [] renderFunc = "rightUpperArm" -> <<"upperArm", "right">>
      [] renderFunc = "rightLowerArm" -> <<"lowerArm", "right">>
      [] renderFunc = "leftUpperLeg" -> <<"upperLeg", "left">>
      [] renderFunc = "leftLowerLeg" -> <<"lowerLeg", "left">>
      [] renderFunc = "rightUpperLeg" -> <<"upperLeg", "right">>
      [] renderFunc = "rightLowerLeg" -> <<"lowerLeg", "right">>

\* example.js lines 256-299: the render function of a part; the lower arms
\* and lower legs draw the box without a scale
partRender(renderFunc) ==
    LET scalem ==
            CASE renderFunc = "torso" -> mv_scalem(Dec(2, 10), Dec(6, 10), Dec(2, 10))
              [] renderFunc = "head" -> mv_scalem(Dec(5, 10), Dec(6, 10), Dec(5, 10))
              [] renderFunc \in {"leftUpperArm", "rightUpperArm"} ->
                   mv_scalem(Dec(3, 10), Dec(4, 10), Dec(3, 10))
              [] renderFunc = "sword" -> mv_scalem(Dec(3, 10), Num(1), Dec(3, 10))
              [] renderFunc \in {"leftUpperLeg", "rightUpperLeg"} ->
                   mv_scalem(Dec(3, 10), Dec(6, 10), Dec(3, 10))
              [] OTHER -> <<>>
    IN  (IF scalem = <<>> THEN <<>> ELSE iMult(scalem))
        \o iDraw(PartName(renderFunc)[1], PartName(renderFunc)[2])

\* example.js lines 179-190
RECURSIVE traverse(_)
traverse(id) ==
    IF id = null THEN <<>>
    ELSE iArrayPush
         \o iMult(figure[id].transform)
         \o partRender(figure[id].render)
         \o (IF figure[id].child # null THEN traverse(figure[id].child) ELSE <<>>)
         \o iArrayPop
         \o (IF figure[id].sibling # null THEN traverse(figure[id].sibling) ELSE <<>>)

\* example.js lines 332-335: drawAxis draws under a matrix of its own;
\* initNodes(rightUpperArmId) stores the node anew; then the traversal
render_example == iMat4 \o traverse(torsoId)

\* the animation update without the assignment rightArmAngle = 90
armStep_free(angle, dir) ==
    LET a == Add(angle, Mul(dir, Dec(15, 10)))
    IN  [rightArmAngle |-> If(Lt(a, Num(0)), Num(0), a),
         direction |-> If(Lt(a, Num(0)), Num(1), If(Lt(Num(90), a), Num(-1), dir))]

\* example.js lines 321-329: the animation update, as expressions
armStep(angle, dir) ==
    LET a == Add(angle, Mul(dir, Dec(15, 10)))
        b == If(Lt(Num(90), a), Num(90), a)
    IN  [rightArmAngle |-> If(Lt(b, Num(0)), Num(0), b),
         direction |-> If(Lt(b, Num(0)), Num(1), If(Lt(Num(90), a), Num(-1), dir))]

----------------------------------------------------------------------------
(* Frames after frames: render as requestAnimationFrame calls it          *)
(* (SpecFrames)                                                            *)

\* fencing.js line 847: if (startTime === null) startTime = time
epoch_strict(start, time) == IF start = Null THEN time ELSE start

\* part_000 line 703, fencing.js line 1415: if (!startTime) startTime = now
epoch(start, now) == IF start \in {Null, Zero, NaN} THEN now ELSE start

\* const duration = 0.8
duration == Dec(8, 10)

\* the animation parameter without the bound of fencing.js line 849
phase_open(v, start, now) ==
    IF v = "fencing"
    THEN Div(Div(Sub(now, start), Num(1000)), duration)
    ELSE progress(Sub(now, start))

\* the animation parameter of the frame: fencing.js lines 848-849, or the
\* ping-pong progress of the elapsed time
phase(v, start, now) ==
    IF v = "fencing"
    THEN Min(Div(Div(Sub(now, start), Num(1000)), duration), Num(1))
    ELSE progress(Sub(now, start))

\* the timestamps requestAnimationFrame passes, in milliseconds
Times == {0, 500, 1200}

\* what a frame takes from outside the program: the timestamp (example.js's
\* render has no parameter and takes none), and what
\* the model leaves open (the sines of the running phase, the case of the
\* barbell's orientation)
FrameChoices(v) ==
    IF v = "running"
    THEN {[now |-> n, x |-> p.x, y |-> p.y, branch |-> "none"] :
            n \in Times, p \in SinPairs(PoseSteps)}
    ELSE {[now |-> n, x |-> Num(0), y |-> Num(0), branch |-> b] :
            n \in (IF v = "example" THEN {0} ELSE Times),
            b \in (IF v = "lifting" THEN BarbellBranches ELSE {"none"})}

\* stack.push(modelViewMatrix) and the other statements of traverse
StepArrayPush ==
    /\ At("array_push")
    /\ stk' = array_push(stk)
    /\ Advance
    /\ UNCHANGED <<calls, ret, log, stkTop, warned>>

StepArrayPop ==
    /\ At("array_pop")
    /\ stk' = array_pop(stk)
    /\ Advance
    /\ UNCHANGED <<calls, ret, log, stkTop, warned>>

\* modelViewMatrix = mult(modelViewMatrix, m): the arguments of the
\* factors of m are evaluated
StepMult ==
    /\ At("mult")
    /\ stk' = IF stk.current = Undefined THEN throw(stk, "TypeError")
              ELSE gc([alloc(stk, mult(Val(stk, stk.current),
                                       [i \in DOMAIN prog[pc].x |->
                                          [prog[pc].x[i] EXCEPT
                                             !.a = IF @ = <<>> THEN @ ELSE Ev(@),
                                             !.v = EvAll(@)]]))
                       EXCEPT !.current = NewId(stk)])
    /\ Advance
    /\ UNCHANGED <<calls, ret, log, stkTop, warned>>

StepMat4 ==
    /\ At("mat4")
    /\ stk' = mat4_assign(stk)
    /\ Advance
    /\ UNCHANGED <<calls, ret, log, stkTop, warned>>

InitFrames ==
    /\ variant \in Variants
    /\ stk = IF variant = "example" THEN exampleStack ELSE MatrixStack
    /\ lastOp = "new"
    /\ changed = FALSE
    /\ pushed = <<>>
    /\ fn = "none"
    /\ arg = [now |-> 0]
    /\ out = <<>>
    /\ DrawIdle
    /\ FrameIdle

\* requestAnimationFrame(render) / requestAnimFrame(render), the last
\* statement of render
iRequest == <<Ins("request", <<>>, <<"", "">>)>>

\* render is entered with a timestamp not before the last
Invoke ==
    /\ pc = 0
    /\ stk.thrown = "none"
    /\ \E c \in FrameChoices(variant) :
         /\ c.now >= arg.now
         /\ arg' = [now |-> c.now]
         /\ startTime' = IF variant = "fencing" THEN epoch_strict(startTime, F(c.now))
                         ELSE IF variant \in {"spike", "lifting"} THEN epoch(startTime, F(c.now))
                         ELSE startTime
         /\ rightArmAngle' = IF variant = "example"
                             THEN Ev(armStep(rightArmAngle, direction).rightArmAngle)
                             ELSE rightArmAngle
         /\ direction' = IF variant = "example"
                         THEN Ev(armStep(rightArmAngle, direction).direction)
                         ELSE direction
         /\ out' = IF variant \in {"fencing", "spike", "lifting"}
                   THEN [t |-> Ev(phase(variant, startTime', F(c.now)))]
                   ELSE [t |-> Zero]
         /\ prog' = (IF variant = "example" THEN render_example
                     ELSE render(variant, IF variant = "running" THEN c.x ELSE out'.t,
                                 c.y, c.branch))
                    \o iRequest
    /\ pc' = 1
    /\ stk' = gc([stk EXCEPT !.regs = <<>>])
    /\ calls' = <<>>
    /\ ret' = NoReturn
    /\ log' = <<>>
    /\ UNCHANGED <<variant, lastOp, changed, pushed, fn, stkTop, warned, camera, events>>

\* the frame requests the script makes when it is loaded: fencing.js line
\* 887 and line 1458 (spike), part_000 line 757
loadRequests == 1

\* the running script's request at load
loadRequests_running == 1

\* the script is loaded: its top-level statements run, the last of them the
\* first frame request; example.js's init, the handler of window.onload,
\* calls render itself
Load ==
    /\ ~host.loaded
    /\ IF variant = "example"
       THEN /\ host' = [host EXCEPT !.loaded = TRUE]
            /\ Invoke
       ELSE /\ host' = [loaded |-> TRUE,
                        requests |-> host.requests
                                     + (IF variant = "running" THEN loadRequests_running
                                        ELSE loadRequests)]
            /\ UNCHANGED <<variant, stackVars, fnVars, drawVars,
                           camera, startTime, rightArmAngle, direction, events>>

\* the browser runs a requested frame: the request is taken off its list
\* and render is called
Frame ==
    /\ host.loaded
    /\ host.requests > 0
    /\ host' = [host EXCEPT !.requests = @ - 1]
    /\ Invoke

\* render returns without a request
StepRequest_skipped ==
    /\ At("request")
    /\ Move
    /\ UNCHANGED <<stk, calls, ret, log, stkTop, warned, frameVars>>

\* render's last statement runs
StepRequest ==
    /\ At("request")
    /\ host' = [host EXCEPT !.requests = @ + 1]
    /\ Move
    /\ UNCHANGED <<stk, calls, ret, log, stkTop, warned,
                   camera, startTime, rightArmAngle, direction, events>>

\* the statements of a render call
FrameSteps ==
    \/ StepRequest
    \/ StepPush
    \/ StepPop
    \/ StepLoadIdentity
    \/ StepApply
    \/ StepDraw
    \/ StepCapture
    \/ StepEnter
    \/ StepExit
    \/ StepStkTop
    \/ StepLeakCheck
    \/ StepArrayPush
    \/ StepArrayPop
    \/ StepMult
    \/ StepMat4

NextFrames == Load \/ Frame \/ FrameSteps

SpecFrames == InitFrames /\ [][NextFrames]_vars

\* the steps fairness is about, by what they change: the script is loaded
\* (a Load step), render is called for a pending request (a Frame step),
\* the render call in progress executes its next statement (a step of
\* FrameSteps); each is enabled exactly when the action is
Loaded ==
    /\ ~host.loaded
    /\ \E n \in 0..1 : host' = [loaded |-> TRUE, requests |-> n]

Called ==
    /\ pc = 0
    /\ stk.thrown = "none"
    /\ host.loaded
    /\ host.requests > 0
    /\ pc' = 1

Ran ==
    /\ pc > 0
    /\ stk.thrown = "none"
    /\ \E n \in 0..Len(prog) : pc' = n

\* the page is loaded, the browser honours every frame request, and a
\* render call runs to its end
SpecLoop ==
    SpecFrames /\ WF_host(Loaded) /\ WF_pc(Called) /\ WF_pc(Ran)

----------------------------------------------------------------------------
(* Claims about the frames *)

\* C17: in every time-driven variant the animation epoch startTime is
\* assigned by the first render call and never reassigned by a later
\* call, for every non-decreasing sequence of timestamps, one that starts
\* at 0 included.
C17_EpochAssignedOnce == [][startTime # Null => startTime' = startTime]_vars

\* C18: no frame carries mutable state into the next except the epoch and
\* the camera: at the entry of each render call the transform history is
\* empty, render rebuilds the current transform from identity before it
\* uses it, and no other variable a frame writes is read by a later frame
\* (the only other variables a frame reads are example.js's rightArmAngle
\* and direction, so no frame may change them).
C18_NoCarriedState ==
    /\ [](pc = 0 => Len(stk.stack) = 0)
    /\ [](pc = 1 => prog[1].op \in {"loadIdentity", "mat4"})
    /\ [][rightArmAngle' = rightArmAngle /\ direction' = direction]_vars

Segments == {"body", "head", "upperArm", "lowerArm", "upperLeg", "lowerLeg"}

\* the draw calls of the skeleton's segments, in the order issued
Skeleton ==
    LET drawn == SelectSeq(log, LAMBDA d : d.name[1] \in Segments)
    IN  [i \in DOMAIN drawn |-> drawn[i].name]

FixedOrder ==
    <<<<"body", "">>, <<"head", "">>,
      <<"upperArm", "left">>, <<"lowerArm", "left">>,
      <<"upperArm", "right">>, <<"lowerArm", "right">>,
      <<"upperLeg", "left">>, <<"lowerLeg", "left">>,
      <<"upperLeg", "right">>, <<"lowerLeg", "right">>>>

\* C19: each frame issues the draw calls of the skeleton in the order
\* torso, head, left arm, right arm, left leg, right leg, each limb's
\* upper segment before its lower segment, and each part once.
C19_DrawOrder ==
    (pc = 0 /\ log # <<>>) => Skeleton = FixedOrder

\* C20: the scale under which a part is drawn stays in that part's own
\* scope: the transform of a draw call contains no scale except as its
\* last factor, the scale of the part drawn.
C20_ScaleConfined ==
    \A i \in DOMAIN log :
        \A j \in 1..(Len(log[i].val) - 1) : log[i].val[j].k # "S"

\* the right arm's parts
RightArm == {<<"upperArm", "right">>, <<"lowerArm", "right">>, <<"sword", "right">>}

\* the rotations of the right-upper-arm node as initNodes builds it when
\* the script is loaded, with their arguments evaluated
RestTurns ==
    LET turns == Rotations(initNodes(rightUpperArmId).transform)
    IN  [i \in DOMAIN turns |-> [turns[i] EXCEPT !.a = Ev(@), !.v = EvAll(@)]]

\* C24: in example.js the node of the right upper arm that a frame rebuilds
\* is determined by the frame's rightArmAngle, so the right arm, its lower
\* arm and the sword swing as the angle sweeps: a frame whose angle is not
\* the first frame's 1.5 draws them under a rotation other than the one
\* the node is built with at load.
C24_ArmFollowsAngle ==
    variant = "example"
    => \A i \in DOMAIN log :
         (log[i].name \in RightArm /\ rightArmAngle # Ev(Dec(15, 10)))
         => Rotations(log[i].val) # RestTurns

Pushes == {"push", "array_push"}

Pops == {"pop", "array_pop"}

\* the operations of the frame that have been executed
Executed == IF pc = 0 THEN DOMAIN prog ELSE 1..(pc - 1)

Done(ops) == Cardinality({i \in Executed : prog[i].op \in ops})

\* C27: in every variant and every frame no pop is executed on an empty
\* history, the history holds exactly the pushes of the frame not yet
\* popped, and when render returns every push has had its pop and the
\* history is empty again.
C27_PushPopBalanced ==
    /\ stk.thrown = "none"
    /\ (pc > 0 /\ prog[pc].op \in Pops) => Len(stk.stack) > 0
    /\ Len(stk.stack) = Done(Pushes) - Done(Pops)
    /\ pc = 0 => Len(stk.stack) = 0 /\ Done(Pushes) = Done(Pops)

C27_Witness ==
    /\ pc = 0
    /\ log # <<>>
    /\ variant = "example"
    /\ Done(Pops) >= 10

----------------------------------------------------------------------------
(* Claims about the render loop (SpecLoop) *)

ArmNext == FAdd(rightArmAngle, FMul(direction, Ev(Dec(15, 10))))

\* C29: in example.js rightArmAngle is within [0, 90] and direction is +1
\* or -1 after every render call; direction becomes -1 only in a frame whose
\* step exceeds 90 and +1 only in a frame whose step goes below 0; and the
\* angle arrives at 90 and at 0 again and again, forever.
C29_ArmSweep ==
    /\ [](variant = "example"
          => /\ FLe(Zero, rightArmAngle) /\ FLe(rightArmAngle, F(90))
             /\ direction \in {F(1), F(-1)})
    /\ [][(direction' # direction /\ direction' = F(-1)) => FLt(F(90), ArmNext)]_vars
    /\ [][(direction' # direction /\ direction' = F(1)) => FLt(ArmNext, Zero)]_vars
    /\ []<>(variant = "example" => (rightArmAngle = F(90) /\ direction = F(-1)))
    /\ []<>(variant = "example" => (rightArmAngle = Zero /\ direction = F(1)))

C29_Witness ==
    /\ variant = "example"
    /\ rightArmAngle = Zero
    /\ direction = F(1)
    /\ host.requests = 1
    /\ pc = 0
    /\ log # <<>>

----------------------------------------------------------------------------
(* Claims about the lunge under an advancing clock (SpecClock) *)

\* the timestamp of the frames grows as long as the clock of the model
\* has a later time
Tick == \E n \in Times : n > arg.now /\ arg' = [now |-> n]

SpecClock == SpecLoop /\ WF_arg(Tick)

\* fencing.js line 848: the seconds since the epoch
sec(start, now) == FDiv(FSub(F(now), start), F(1000))

\* the elapsed time has reached the duration
Lunged(start, now) ==
    variant = "fencing" /\ start # Null /\ FLe(Ev(duration), sec(start, now))

\* the clock of the model has a time at which the duration has elapsed
InReach == \E n \in Times : Lunged(startTime, n)

\* the joint angles of lungePose that turn the part drawn: the body lean,
\* then the angles of the part's limb down to its joint
LungeTurns(name) ==
    LET left == name[2] = "left"
        shoulder == IF left THEN lungePose.leftShoulder ELSE lungePose.rightShoulder
        elbow == IF left THEN lungePose.leftElbow ELSE lungePose.rightElbow
        hip == IF left THEN lungePose.leftHip ELSE lungePose.rightHip
        knee == IF left THEN lungePose.leftKnee ELSE lungePose.rightKnee
    IN  CASE name[1] = "body" -> <<lungePose.bodyLean>>
          [] name[1] = "head" -> <<lungePose.bodyLean, lungePose.headTilt>>
          [] name[1] \in {"shoulder", "upperArm"} -> <<lungePose.bodyLean, shoulder>>
          [] name[1] \in {"elbow", "lowerArm", "hand", "sword"} ->
                <<lungePose.bodyLean, shoulder, elbow>>
          [] name[1] \in {"hip", "upperLeg"} -> <<lungePose.bodyLean, hip>>
          [] name[1] \in {"knee", "lowerLeg", "ankle"} -> <<lungePose.bodyLean, hip, knee>>

\* the angles of the rotations a part was drawn under
TurnsOf(word) == [j \in DOMAIN Rotations(word) |-> Rotations(word)[j].a]

\* C30: in the fencing variant the progress of every frame is
\* min(elapsed / duration, 1), within [0, 1]; a frame whose elapsed time is
\* at least the duration draws every part with exactly the angles and the
\* body lean of lungePose; once the elapsed time has reached the duration
\* it stays so in every later frame; and under an advancing clock (for
\* every epoch from which the clock of the model reaches the duration) the
\* epoch is set and frames in the final pose keep being completed.
C30_LungeHeld ==
    /\ [](variant = "fencing" /\ startTime # Null
          => /\ out.t = FMin(FDiv(sec(startTime, arg.now), Ev(duration)), F(1))
             /\ FLe(Zero, out.t) /\ FLe(out.t, F(1)))
    /\ [](Lunged(startTime, arg.now) => \A i \in DOMAIN log :
                      TurnsOf(log[i].val) = EvAll(LungeTurns(log[i].name)))
    /\ [][Lunged(startTime, arg.now) => Lunged(startTime', arg'.now)]_vars
    /\ []<>((variant = "fencing" /\ (startTime = Null \/ InReach))
            => (Lunged(startTime, arg.now) /\ pc = 0 /\ log # <<>>))

C30_Witness ==
    /\ Lunged(startTime, arg.now)
    /\ out.t = F(1)
    /\ pc = 0
    /\ Len(log) > 10

============================================================================
